---- MODULE Spec2Model ----
(***************************************************************************)
(* Model of the ola-lang-abi codec: the recursive Type / Value model, the  *)
(* word-stream encoder and decoder (src/src/values.rs), and the ABI table  *)
(* with its selector lookup and call-input framing (src/src/abi.rs,        *)
(* src/src/lib.rs).                                                        *)
(*                                                                         *)
(* All operations of the library are pure functions.  They are modelled as *)
(* operators, and the state machine is a driver that applies them to inputs*)
(* drawn from bounded sets, recording the arguments and the outcome of the *)
(* call in the state.  A Rust panic is an outcome of its own ("panic"),    *)
(* distinct from an Err(..) return ("err").                                *)
(***************************************************************************)
EXTENDS Integers, Sequences, FiniteSets, TLC

(***************************************************************************)
(* Bounds of the model.                                                    *)
(***************************************************************************)
\* words of generated values and of generated streams range over 0..MaxWord
MaxWord == 2
\* element count of generated Array / Fields / String values
MaxLen == 2
\* length of the generated (arbitrary) word streams handed to the decoder
MaxStream == 4

\* AddressValue / HashValue = [usize; 4]
WordsPerHash == 4
\* `b as u8` keeps the low 8 bits of a word
ByteModulus == 256

Words == 0..MaxWord

\* usize::MAX, for a usize as wide as the integers of the checker (31 bits)
UsizeMax == 2147483647

\* the build profile: TRUE where arithmetic overflow is checked and panics
\* (debug-assertions, the default of `cargo build` and `cargo test`), FALSE
\* where it wraps (the release profile)
VARIABLE overflow_checks

(***************************************************************************)
(* Type (src/src/types.rs)                                                 *)
(***************************************************************************)
TypeU32 == [tag |-> "U32"]
TypeField == [tag |-> "Field"]
TypeHash == [tag |-> "Hash"]
TypeAddress == [tag |-> "Address"]
TypeBool == [tag |-> "Bool"]
TypeString == [tag |-> "String"]
TypeFields == [tag |-> "Fields"]
TypeFixedArray(ty, size) == [tag |-> "FixedArray", ty |-> ty, size |-> size]
TypeArray(ty) == [tag |-> "Array", ty |-> ty]
\* tys: sequence of [name, ty]
TypeTuple(tys) == [tag |-> "Tuple", tys |-> tys]

(***************************************************************************)
(* Value (src/src/values.rs, enum Value).  A String holds its UTF-8 bytes. *)
(***************************************************************************)
ValueU32(i) == [tag |-> "U32", i |-> i]
ValueField(i) == [tag |-> "Field", i |-> i]
ValueAddress(addr) == [tag |-> "Address", addr |-> addr]
ValueHash(hash) == [tag |-> "Hash", hash |-> hash]
ValueBool(b) == [tag |-> "Bool", b |-> b]
ValueFixedArray(values, ty) == [tag |-> "FixedArray", values |-> values, ty |-> ty]
ValueString(s) == [tag |-> "String", s |-> s]
ValueFields(value) == [tag |-> "Fields", value |-> value]
ValueArray(values, ty) == [tag |-> "Array", values |-> values, ty |-> ty]
\* values: sequence of [name, value]
ValueTuple(values) == [tag |-> "Tuple", values |-> values]

(***************************************************************************)
(* Value::type_of                                                          *)
(***************************************************************************)
RECURSIVE Value_type_of(_)
RECURSIVE tuple_types_of(_)
tuple_types_of(values) ==
    IF values = <<>> THEN <<>>
    ELSE <<[name |-> Head(values).name, ty |-> Value_type_of(Head(values).value)]>>
             \o tuple_types_of(Tail(values))

Value_type_of(value) ==
    CASE value.tag = "U32" -> TypeU32
      [] value.tag = "Field" -> TypeField
      [] value.tag = "Address" -> TypeAddress
      [] value.tag = "Hash" -> TypeHash
      [] value.tag = "Bool" -> TypeBool
      [] value.tag = "FixedArray" -> TypeFixedArray(value.ty, Len(value.values))
      [] value.tag = "String" -> TypeString
      [] value.tag = "Fields" -> TypeFields
      [] value.tag = "Array" -> TypeArray(value.ty)
      [] value.tag = "Tuple" -> TypeTuple(tuple_types_of(value.values))

\* the type list of a value list (the caller's `values.iter().map(type_of)`)
TypesOf(values) == [k \in 1..Len(values) |-> Value_type_of(values[k])]

(***************************************************************************)
(* Vec and slice primitives used by the encoder, with Rust's bounds checks.*)
(* Positions are 0-based as in the source.                                 *)
(***************************************************************************)
EncOk(buf) == [status |-> "ok", buf |-> buf]
EncPanic == [status |-> "panic", buf |-> <<>>]

\* Vec::resize(new_len, x)
VecResize(buf, new_len, x) ==
    IF new_len >= Len(buf)
    THEN buf \o [k \in 1..(new_len - Len(buf)) |-> x]
    ELSE SubSeq(buf, 1, new_len)

\* buf[index] = x : panics when index >= buf.len()
IndexAssign(buf, index, x) ==
    IF index < Len(buf) THEN EncOk([buf EXCEPT ![index + 1] = x]) ELSE EncPanic

\* buf[from..to].copy_from_slice(src) : the range must lie in buf and have
\* the length of src, else panic
CopyFromSlice(buf, from, to, src) ==
    IF from <= to /\ to <= Len(buf) /\ to - from = Len(src)
    THEN EncOk([k \in 1..Len(buf) |->
                   IF k > from /\ k <= to THEN src[k - from] ELSE buf[k]])
    ELSE EncPanic

(***************************************************************************)
(* Value::encode                                                           *)
(***************************************************************************)
RECURSIVE Value_encode(_)
RECURSIVE encode_loop(_, _)

\* a projection that skips the fields without a name
tuple_values_skip_unnamed(values) ==
    LET named == SelectSeq(values, LAMBDA field : field.name # "")
    IN [k \in 1..Len(named) |-> named[k].value]

\* values.iter().cloned().map(|(_, value)| value).collect()
tuple_values(values) == [k \in 1..Len(values) |-> values[k].value]

\* buf.extend(Self::encode(inner)): a panic of the inner call unwinds
extend_encoded(buf, inner) ==
    LET bytes == Value_encode(inner)
    IN IF bytes.status = "panic" THEN EncPanic ELSE EncOk(buf \o bytes.buf)

\* an Array arm that writes no length word
encode_array_no_len(buf, elems) == extend_encoded(buf, elems)

\* Value::Array arm: the element count, then the elements' encoding
encode_array(buf, elems) ==
    extend_encoded(VecResize(buf, Len(buf) + 1, Len(elems)), elems)

\* a FixedArray / Tuple arm that writes the member count first
encode_members_with_len(buf, members) ==
    extend_encoded(VecResize(buf, Len(buf) + 1, Len(members)), members)

\* Value::FixedArray and Value::Tuple arms: the members' encoding, no prefix
encode_members(buf, members) == extend_encoded(buf, members)

\* one iteration of the `for value in values` loop: the match arm of value
encode_value(buf, value) ==
    LET start == Len(buf) IN
    CASE value.tag = "U32" -> EncOk(VecResize(buf, start + 1, value.i))
      [] value.tag = "Field" -> EncOk(VecResize(buf, start + 1, value.i))
      [] value.tag = "Address" ->
            CopyFromSlice(VecResize(buf, start + WordsPerHash, 0),
                          start, start + WordsPerHash, value.addr)
      [] value.tag = "Hash" ->
            CopyFromSlice(VecResize(buf, start + WordsPerHash, 0),
                          start, start + WordsPerHash, value.hash)
      [] value.tag = "Bool" ->
            LET resized == VecResize(buf, start + 1, 0)
            IN IF value.b THEN IndexAssign(resized, start + 1, 1)
               ELSE EncOk(resized)
      [] value.tag = "FixedArray" -> encode_members(buf, value.values)
      [] value.tag = "Tuple" -> encode_members(buf, tuple_values(value.values))
      [] value.tag = "String" ->
            LET value_len == Len(value.s)
            IN CopyFromSlice(VecResize(buf, start + 1, value_len),
                             start + 1, start + 1 + value_len, value.s)
      [] value.tag = "Fields" ->
            LET value_len == Len(value.value)
            IN CopyFromSlice(VecResize(buf, start + 1, value_len),
                             start + 1, start + 1 + value_len, value.value)
      [] value.tag = "Array" -> encode_array(buf, value.values)

encode_loop(values, acc) ==
    IF values = <<>> \/ acc.status = "panic" THEN acc
    ELSE encode_loop(Tail(values), encode_value(acc.buf, Head(values)))

Value_encode(values) == encode_loop(values, EncOk(<<>>))

(***************************************************************************)
(* String::from_utf8 (Rust std): well-formed UTF-8 byte sequences, Unicode *)
(* Table 3-7.                                                              *)
(***************************************************************************)
InRange(b, lo, hi) == lo <= b /\ b <= hi

IsCont(bytes, k) == k <= Len(bytes) /\ InRange(bytes[k], 128, 191)

RECURSIVE utf8_valid_from(_, _)
utf8_valid_from(bytes, k) ==
    IF k > Len(bytes) THEN TRUE
    ELSE LET b == bytes[k] IN
         CASE b <= 127 -> utf8_valid_from(bytes, k + 1)
           [] InRange(b, 194, 223) ->
                IsCont(bytes, k + 1) /\ utf8_valid_from(bytes, k + 2)
           [] InRange(b, 224, 239) ->
                /\ k + 1 <= Len(bytes)
                /\ InRange(bytes[k + 1],
                           IF b = 224 THEN 160 ELSE 128,
                           IF b = 237 THEN 159 ELSE 191)
                /\ IsCont(bytes, k + 2)
                /\ utf8_valid_from(bytes, k + 3)
           [] InRange(b, 240, 244) ->
                /\ k + 1 <= Len(bytes)
                /\ InRange(bytes[k + 1],
                           IF b = 240 THEN 144 ELSE 128,
                           IF b = 244 THEN 143 ELSE 191)
                /\ IsCont(bytes, k + 2)
                /\ IsCont(bytes, k + 3)
                /\ utf8_valid_from(bytes, k + 4)
           [] OTHER -> FALSE

String_from_utf8_ok(bytes) == utf8_valid_from(bytes, 1)

(***************************************************************************)
(* Value::decode                                                           *)
(***************************************************************************)
NoValue == [tag |-> "None"]
DecOk(value, consumed) ==
    [status |-> "ok", value |-> value, consumed |-> consumed, msg |-> ""]
DecErr(msg) ==
    [status |-> "err", value |-> NoValue, consumed |-> 0, msg |-> msg]

DecPanic == [status |-> "panic", value |-> NoValue, consumed |-> 0, msg |-> ""]

\* a + b on usize: "attempt to add with overflow" panics where the build has
\* overflow checks, and wraps modulo UsizeMax + 1 where it has none
usize_add(a, b, checks) ==
    IF b <= UsizeMax - a THEN [panic |-> FALSE, sum |-> a + b]
    ELSE [panic |-> checks, sum |-> a - (UsizeMax - b) - 1]

\* bs.get(from..to): None unless from <= to <= bs.len()
SliceGet(bs, from, to) ==
    IF from <= to /\ to <= Len(bs)
    THEN [some |-> TRUE, slice |-> SubSeq(bs, from + 1, to)]
    ELSE [some |-> FALSE, slice |-> <<>>]

\* bytes.into_iter().map(|b| b as u8).collect()
AsU8(words) == [k \in 1..Len(words) |-> words[k] % ByteModulus]

\* Type::Fields arm
decode_fields(bs, base_addr, at) ==
    LET at0 == base_addr + at
        field_len_slice == SliceGet(bs, at0, at0 + 1)
    IN IF ~field_len_slice.some
       THEN DecErr("reached end of input while decoding fields length")
       ELSE LET field_len == field_len_slice.slice[1]
                at1 == at0 + 1
                fields_end == usize_add(at1, field_len, overflow_checks)
                fields_value == SliceGet(bs, at1, fields_end.sum)
            IN IF fields_end.panic THEN DecPanic
               ELSE IF ~fields_value.some
               THEN DecErr("reached end of input while decoding bytes")
               ELSE DecOk(ValueFields(fields_value.slice), field_len + 1)

\* Type::String arm
decode_string(bs, base_addr, at) ==
    LET fields == decode_fields(bs, base_addr, at)
    IN IF fields.status # "ok" THEN fields
       ELSE LET bytes == AsU8(fields.value.value)
            IN IF String_from_utf8_ok(bytes)
               THEN DecOk(ValueString(bytes), fields.consumed)
               ELSE DecErr("invalid utf-8 sequence")

\* scalar arms whose Bool arm returns the word it read as a U32
decode_scalar_bool_as_word(bs, ty, base_addr, at) ==
    LET at0 == base_addr + at
        width == IF ty.tag \in {"Address", "Hash"} THEN WordsPerHash ELSE 1
        got == SliceGet(bs, at0, at0 + width)
    IN IF ~got.some
       THEN DecErr("reached end of input while decoding " \o ty.tag)
       ELSE CASE ty.tag = "U32" -> DecOk(ValueU32(got.slice[1]), 1)
              [] ty.tag = "Field" -> DecOk(ValueField(got.slice[1]), 1)
              [] ty.tag = "Address" -> DecOk(ValueAddress(got.slice), WordsPerHash)
              [] ty.tag = "Hash" -> DecOk(ValueHash(got.slice), WordsPerHash)
              [] ty.tag = "Bool" -> DecOk(ValueU32(got.slice[1]), 1)

\* the scalar arms: U32, Field, Bool (1 word), Address, Hash (4 words)
decode_scalar(bs, ty, base_addr, at) ==
    LET at0 == base_addr + at
        width == IF ty.tag \in {"Address", "Hash"} THEN WordsPerHash ELSE 1
        got == SliceGet(bs, at0, at0 + width)
    IN IF ~got.some
       THEN DecErr("reached end of input while decoding " \o ty.tag)
       ELSE CASE ty.tag = "U32" -> DecOk(ValueU32(got.slice[1]), 1)
              [] ty.tag = "Field" -> DecOk(ValueField(got.slice[1]), 1)
              [] ty.tag = "Address" -> DecOk(ValueAddress(got.slice), WordsPerHash)
              [] ty.tag = "Hash" -> DecOk(ValueHash(got.slice), WordsPerHash)
              [] ty.tag = "Bool" -> DecOk(ValueBool(got.slice[1] = 1), 1)

RECURSIVE Value_decode(_, _, _, _)
RECURSIVE fixed_array_fold(_, _, _, _, _, _, _)
RECURSIVE array_fold(_, _, _, _, _, _)
RECURSIVE tuple_fold(_, _, _, _, _, _)

\* Type::FixedArray arm: (0..size).try_fold((vec![], 0), ..), `left` iterations to go
fixed_array_fold(bs, ty, base_addr, at, left, acc, total_consumed) ==
    IF left = 0 THEN DecOk(acc, total_consumed)
    ELSE LET r == Value_decode(bs, ty, base_addr, at + total_consumed)
         IN IF r.status # "ok" THEN r
            ELSE fixed_array_fold(bs, ty, base_addr, at, left - 1,
                                  Append(acc, r.value), total_consumed + r.consumed)

\* Type::Array arm: (0..array_len).try_fold((vec![], 0), ..); `at` is the
\* position after the length word and is passed as the element's base_addr
array_fold(bs, ty, at, left, acc, total_consumed) ==
    IF left = 0 THEN DecOk(acc, total_consumed)
    ELSE LET r == Value_decode(bs, ty, at, total_consumed)
         IN IF r.status # "ok" THEN r
            ELSE array_fold(bs, ty, at, left - 1,
                            Append(acc, r.value), total_consumed + r.consumed)

\* Type::Tuple arm: tys.iter().cloned().try_fold((vec![], 0), ..)
tuple_fold(bs, tys, base_addr, at, acc, total_consumed) ==
    IF tys = <<>> THEN DecOk(acc, total_consumed)
    ELSE LET r == Value_decode(bs, Head(tys).ty, base_addr, at + total_consumed)
         IN IF r.status # "ok" THEN r
            ELSE tuple_fold(bs, Tail(tys), base_addr, at,
                            Append(acc, [name |-> Head(tys).name, value |-> r.value]),
                            total_consumed + r.consumed)

\* the consumed count the Type::Array arm reports for its elements' total
array_consumed(total_consumed) == total_consumed

decode_array(bs, ty, base_addr, at) ==
    LET at0 == base_addr + at
        array_len_slice == SliceGet(bs, at0, at0 + 1)
    IN IF ~array_len_slice.some
       THEN DecErr("reached end of input while decoding array length")
       ELSE LET array_len == array_len_slice.slice[1]
                at1 == at0 + 1
                r == array_fold(bs, ty.ty, at1, array_len, <<>>, 0)
            IN IF r.status # "ok" THEN r
               ELSE DecOk(ValueArray(r.value, ty.ty), array_consumed(r.consumed))

Value_decode(bs, ty, base_addr, at) ==
    CASE ty.tag \in {"U32", "Field", "Address", "Hash", "Bool"} ->
            decode_scalar(bs, ty, base_addr, at)
      [] ty.tag = "FixedArray" ->
            LET r == fixed_array_fold(bs, ty.ty, base_addr, at, ty.size, <<>>, 0)
            IN IF r.status # "ok" THEN r
               ELSE DecOk(ValueFixedArray(r.value, ty.ty), r.consumed)
      [] ty.tag = "String" -> decode_string(bs, base_addr, at)
      [] ty.tag = "Fields" -> decode_fields(bs, base_addr, at)
      [] ty.tag = "Array" -> decode_array(bs, ty, base_addr, at)
      [] ty.tag = "Tuple" ->
            LET r == tuple_fold(bs, ty.tys, base_addr, at, <<>>, 0)
            IN IF r.status # "ok" THEN r
               ELSE DecOk(ValueTuple(r.value), r.consumed)

(***************************************************************************)
(* Value::decode_from_slice                                                *)
(***************************************************************************)
ResOk(vals) == [status |-> "ok", values |-> vals, msg |-> ""]
ResErr(msg) == [status |-> "err", values |-> <<>>, msg |-> msg]
ResPanic == [status |-> "panic", values |-> <<>>, msg |-> ""]

\* tys.iter().try_fold((vec![], 0), |(values, at), ty| ..)
RECURSIVE decode_from_slice_fold(_, _, _, _)
decode_from_slice_fold(bs, tys, acc, at) ==
    IF tys = <<>> THEN ResOk(acc)
    ELSE LET r == Value_decode(bs, Head(tys), 0, at)
         IN IF r.status = "panic" THEN ResPanic
            ELSE IF r.status # "ok" THEN ResErr(r.msg)
            ELSE decode_from_slice_fold(bs, Tail(tys), Append(acc, r.value),
                                        at + r.consumed)

\* a decode that rejects the words left after the last value
decode_from_slice_exact(bs, tys) ==
    LET RECURSIVE fold_end(_, _)
        fold_end(rest, at) ==
            IF rest = <<>> THEN at
            ELSE LET r == Value_decode(bs, Head(rest), 0, at)
                 IN IF r.status # "ok" THEN at
                    ELSE fold_end(Tail(rest), at + r.consumed)
        res == decode_from_slice_fold(bs, tys, <<>>, 0)
    IN IF res.status = "ok" /\ fold_end(tys, 0) < Len(bs)
       THEN ResErr("trailing words")
       ELSE res

Value_decode_from_slice(bs, tys) == decode_from_slice_fold(bs, tys, <<>>, 0)

(***************************************************************************)
(* impl Display for Type (src/src/types.rs)                                *)
(***************************************************************************)
RECURSIVE Type_to_string(_)
RECURSIVE join_types(_)
\* a join that puts a space after each comma
RECURSIVE join_types_spaced(_)
join_types_spaced(tys) ==
    IF tys = <<>> THEN ""
    ELSE IF Len(tys) = 1 THEN Type_to_string(Head(tys))
    ELSE Type_to_string(Head(tys)) \o ", " \o join_types_spaced(Tail(tys))

\* tys.iter().map(|(_, ty)| format!("{}", ty)).collect::<Vec<_>>().join(",")
join_types(tys) ==
    IF tys = <<>> THEN ""
    ELSE IF Len(tys) = 1 THEN Type_to_string(Head(tys))
    ELSE Type_to_string(Head(tys)) \o "," \o join_types(Tail(tys))

Type_to_string(ty) ==
    CASE ty.tag = "U32" -> "u32"
      [] ty.tag = "Field" -> "field"
      [] ty.tag = "Hash" -> "hash"
      [] ty.tag = "Address" -> "address"
      [] ty.tag = "Bool" -> "bool"
      [] ty.tag = "String" -> "string"
      [] ty.tag = "Fields" -> "fields"
      [] ty.tag = "FixedArray" ->
            Type_to_string(ty.ty) \o "[" \o ToString(ty.size) \o "]"
      [] ty.tag = "Array" -> Type_to_string(ty.ty) \o "[]"
      [] ty.tag = "Tuple" ->
            "(" \o join_types([k \in 1..Len(ty.tys) |-> ty.tys[k].ty]) \o ")"

(***************************************************************************)
(* Param, Function, Abi (src/src/abi.rs)                                   *)
(***************************************************************************)
Param(name, type_) == [name |-> name, type_ |-> type_]
Function(name, inputs, outputs) ==
    [name |-> name, inputs |-> inputs, outputs |-> outputs]
Abi(functions) == [functions |-> functions]

\* self.inputs.iter().map(|f_input| f_input.type_.clone()).collect()
inputs_types(f) == [k \in 1..Len(f.inputs) |-> f.inputs[k].type_]

\* a signature that renders each input as "name type"
RECURSIVE join_named(_)
join_named(inputs) ==
    IF inputs = <<>> THEN ""
    ELSE Head(inputs).name \o " " \o Type_to_string(Head(inputs).type_)
            \o (IF Len(inputs) = 1 THEN "" ELSE "," \o join_named(Tail(inputs)))
signature_with_param_names(f) == f.name \o "(" \o join_named(f.inputs) \o ")"

\* Function::signature
Function_signature(f) ==
    f.name \o "(" \o join_types(inputs_types(f)) \o ")"

\* Keccak::v256 (crate tiny_keccak) over the signature's bytes: the first 4
\* bytes of the digest, tabulated for the signatures of the model's tables.
Keccak256_first4(sig) ==
    CASE sig = "funname(address,u32[2])" -> <<241, 70, 255, 9>>
      [] sig = "getWinnerName()" -> <<43, 253, 165, 21>>
      [] sig = "vote_test()" -> <<39, 176, 31, 4>>
      [] sig = "vote(u32[],u32)" -> <<225, 211, 30, 51>>
      [] sig = "record(u32,string)" -> <<141, 87, 74, 30>>
      [] sig = "h(bool)" -> <<5, 160, 88, 30>>
      [] sig = "vote(u32,(u32,string))" -> <<104, 111, 233, 25>>
      [] sig = "sum(u32[])" -> <<174, 106, 93, 20>>
      [] sig = "f(u32)" -> <<227, 70, 219, 24>>
      [] sig = "f39615(u32)" -> <<128, 56, 58, 36>>
      [] sig = "f84403(u32)" -> <<128, 56, 58, 36>>

\* u32::from_le_bytes(b) as u64
U32_from_le_bytes(b) ==
    b[1] + ByteModulus * (b[2] + ByteModulus * (b[3] + ByteModulus * b[4]))

\* Function::method_id
Function_method_id(f) == U32_from_le_bytes(Keccak256_first4(Function_signature(f)))

\* Function::decode_input_from_slice: the inputs zipped with the decoded values
Function_decode_input_from_slice(f, input) ==
    LET r == Value_decode_from_slice(input, inputs_types(f))
    IN IF r.status # "ok" THEN [status |-> r.status, params |-> <<>>, msg |-> r.msg]
       ELSE [status |-> "ok",
             params |-> [k \in 1..(IF Len(f.inputs) < Len(r.values)
                                   THEN Len(f.inputs) ELSE Len(r.values)) |->
                            [param |-> f.inputs[k], value |-> r.values[k]]],
             msg |-> ""]

\* outcome of an Abi call that yields a function and its decoded params
CallOk(index, f, params) ==
    [status |-> "ok", index |-> index, f |-> f, params |-> params, msg |-> ""]
CallErr(msg) ==
    [status |-> "err", index |-> 0, f |-> Function("", <<>>, <<>>), params |-> <<>>,
     msg |-> msg]
CallPanic ==
    [status |-> "panic", index |-> 0, f |-> Function("", <<>>, <<>>), params |-> <<>>,
     msg |-> ""]

\* let decoded_params = f.decode_input_from_slice(..)?; Ok((f, decoded_params))
decoded_call(k, f, decoded_params) ==
    IF decoded_params.status = "panic" THEN CallPanic
    ELSE IF decoded_params.status # "ok" THEN CallErr(decoded_params.msg)
    ELSE CallOk(k, f, decoded_params.params)

\* a lookup that falls back to the first function when nothing matches
RECURSIVE find_method_id_or_first(_, _, _)
find_method_id_or_first(functions, input, k) ==
    IF k > Len(functions) THEN (IF Len(functions) > 0 THEN 1 ELSE 0)
    ELSE IF Len(input) = 0 THEN -1
    ELSE IF Function_method_id(functions[k]) = input[1] THEN k
    ELSE find_method_id_or_first(functions, input, k + 1)

\* a lookup that returns the last function with the selector
RECURSIVE find_method_id_last(_, _, _)
find_method_id_last(functions, input, k) ==
    IF k > Len(functions) THEN 0
    ELSE IF Len(input) = 0 THEN -1
    ELSE LET later == find_method_id_last(functions, input, k + 1)
         IN IF later # 0 THEN later
            ELSE IF Function_method_id(functions[k]) = input[1] THEN k
            ELSE 0

\* self.functions.iter().find(|f| f.method_id() == input[0]): the closure
\* indexes input[0] once per function visited; "panic" when that index is
\* out of range, else the 1-based position of the first match, 0 for None
RECURSIVE find_method_id(_, _, _)
find_method_id(functions, input, k) ==
    IF k > Len(functions) THEN 0
    ELSE IF Len(input) = 0 THEN -1
    ELSE IF Function_method_id(functions[k]) = input[1] THEN k
    ELSE find_method_id(functions, input, k + 1)

\* a decode that hands the function only the input[1] words after the header
decode_input_counted(abi, input) ==
    LET k == find_method_id(abi.functions, input, 1)
    IN IF k = -1 THEN CallPanic
       ELSE IF k = 0 THEN CallErr("ABI function not found")
       ELSE IF Len(input) < 2 THEN CallPanic
       ELSE LET f == abi.functions[k]
                last == IF 2 + input[2] < Len(input) THEN 2 + input[2] ELSE Len(input)
            IN decoded_call(k, f, Function_decode_input_from_slice(
                                      f, SubSeq(input, 3, last)))

\* Abi::decode_input_from_slice
Abi_decode_input_from_slice(abi, input) ==
    LET k == find_method_id(abi.functions, input, 1)
    IN IF k = -1 THEN CallPanic
       ELSE IF k = 0 THEN CallErr("ABI function not found")
       ELSE IF Len(input) < 2 THEN CallPanic
       ELSE LET f == abi.functions[k]
            IN decoded_call(k, f, Function_decode_input_from_slice(
                                      f, SubSeq(input, 3, Len(input))))

\* outcome of an Abi call that yields words
WordsOk(words) == [status |-> "ok", words |-> words, msg |-> ""]
WordsErr(msg) == [status |-> "err", words |-> <<>>, msg |-> msg]
WordsPanic == [status |-> "panic", words |-> <<>>, msg |-> ""]

\* self.functions.iter().find(|f| f.signature() == signature)
RECURSIVE find_signature(_, _, _)
find_signature(functions, signature, k) ==
    IF k > Len(functions) THEN 0
    ELSE IF Function_signature(functions[k]) = signature THEN k
    ELSE find_signature(functions, signature, k + 1)

\* a frame whose length word counts the whole frame
frame_counting_itself(head, params) == head \o <<Len(params) + Len(head) + 1>> \o params

\* enc_input.push(params.len() as u64); enc_input.extend(params);
frame(head, params) == head \o <<Len(params)>> \o params

\* Abi::encode_input_with_signature
Abi_encode_input_with_signature(abi, signature, params) ==
    LET k == find_signature(abi.functions, signature, 1)
    IN IF k = 0 THEN WordsErr("ABI function not found")
       ELSE LET enc == Value_encode(params)
            IN IF enc.status = "panic" THEN WordsPanic
               ELSE WordsOk(frame(<<Function_method_id(abi.functions[k])>>, enc.buf))

\* Abi::encode_input_values
Abi_encode_input_values(params) ==
    LET enc == Value_encode(params)
    IN IF enc.status = "panic" THEN WordsPanic
       ELSE WordsOk(frame(<<>>, enc.buf))

(***************************************************************************)
(* Deserialize for Abi (AbiVisitor::visit_seq) and the host wrapper        *)
(* decode_abi_wrapper (src/src/lib.rs).  The description buffer is         *)
(* modelled after JSON syntax analysis: either malformed, or a sequence of *)
(* AbiEntry records.                                                       *)
(***************************************************************************)
NoName == "<None>"
AbiEntry(type_, name, inputs, outputs) ==
    [type_ |-> type_, name |-> name, inputs |-> inputs, outputs |-> outputs]

RECURSIVE visit_seq(_, _)
visit_seq(entries, functions) ==
    IF entries = <<>> THEN [ok |-> TRUE, abi |-> Abi(functions)]
    ELSE LET entry == Head(entries)
         IN IF entry.type_ # "function" \/ entry.name = NoName
            THEN [ok |-> FALSE, abi |-> Abi(<<>>)]
            ELSE visit_seq(Tail(entries),
                           Append(functions,
                                  Function(entry.name, entry.inputs, entry.outputs)))

\* serde_json::from_slice::<Abi>(file_content)
Abi_from_slice(file_content) ==
    IF ~file_content.json_ok THEN [ok |-> FALSE, abi |-> Abi(<<>>)]
    ELSE visit_seq(file_content.entries, <<>>)

\* .map_err(|e| JsValue::from_str(&format!("Error decoding input: {:?}", e)))
map_decode_err(decoded_data) ==
    IF decoded_data.status = "err"
    THEN CallErr("Error decoding input: " \o decoded_data.msg)
    ELSE decoded_data

\* decode_abi_wrapper after the description is parsed
decode_with_parsed(parsed, data) ==
    IF ~parsed.ok THEN CallErr("Failed to parse decode ABI")
    ELSE map_decode_err(Abi_decode_input_from_slice(parsed.abi, data))

\* decode_abi_wrapper: Ok(JsValue of the decoded data) or Err(message)
decode_abi_wrapper(file_content, data) ==
    decode_with_parsed(Abi_from_slice(file_content), data)

(***************************************************************************)
(* Event (src/src/event.rs).  A Param of an event input list carries       *)
(* `indexed: Option<bool>`; a topic slot is a FixedArray4, four words.     *)
(***************************************************************************)
OptNone == [some |-> FALSE, val |-> FALSE]
OptSome(b) == [some |-> TRUE, val |-> b]
\* Option::unwrap_or
unwrap_or(o, default) == IF o.some THEN o.val ELSE default

EventParam(name, type_, indexed) == [name |-> name, type_ |-> type_, indexed |-> indexed]
Event(name, inputs, anonymous) ==
    [name |-> name, inputs |-> inputs, anonymous |-> anonymous]

\* outcome of Event::decode_data_from_slice
LogOk(params) == [status |-> "ok", params |-> params, msg |-> ""]
LogErr(msg) == [status |-> "err", params |-> <<>>, msg |-> msg]
LogPanic == [status |-> "panic", params |-> <<>>, msg |-> ""]

\* a list of hashed types that leaves out String
is_encoded_to_hash_no_string(ty) ==
    ty.tag \in {"FixedArray", "U256", "Array", "Fields", "Tuple"}

\* Event::is_encoded_to_hash
is_encoded_to_hash(ty) ==
    ty.tag \in {"FixedArray", "U256", "Array", "Fields", "String", "Tuple"}

\* a filter that keeps only the inputs declared with indexed: false
not_indexed_strict(input) == input.indexed = OptSome(FALSE)

\* |input| !input.indexed.unwrap_or(false)
not_indexed(input) == ~unwrap_or(input.indexed, FALSE)

\* the types of all the inputs, indexed or not
data_types_unfiltered(inputs) == [k \in 1..Len(inputs) |-> inputs[k].type_]

\* the types of the inputs that are not indexed, in declared order
data_types(inputs) ==
    LET kept == SelectSeq(inputs, not_indexed)
    IN [k \in 1..Len(kept) |-> kept[k].type_]

\* Value::decode_from_slice(..)?.first().ok_or_else(..).map(Clone::clone)
first_decoded(r) ==
    IF r.status = "panic" THEN DecPanic
    ELSE IF r.status # "ok" THEN DecErr(r.msg)
    ELSE IF r.values = <<>> THEN DecErr("no value decoded from topics entry")
    ELSE DecOk(r.values[1], 0)

\* a reconstruction that reads a narrow scalar from the first word of the slot
decode_topic_first_word(val, type_) ==
    IF is_encoded_to_hash(type_) THEN DecOk(ValueHash(val), 0)
    ELSE IF type_ \in {TypeU32, TypeBool, TypeField}
    THEN first_decoded(Value_decode_from_slice(<<val[1]>>, <<type_>>))
    ELSE first_decoded(Value_decode_from_slice(val, <<type_>>))

\* the value of an indexed input, from its topic slot val
decode_topic(val, type_) ==
    IF is_encoded_to_hash(type_) THEN DecOk(ValueHash(val), 0)
    ELSE IF type_ \in {TypeU32, TypeBool, TypeField}
    THEN first_decoded(Value_decode_from_slice(<<val[WordsPerHash]>>, <<type_>>))
    ELSE first_decoded(Value_decode_from_slice(val, <<type_>>))

\* the outcome of the call together with the two queues as the call left them
RunEnd(result, topics_values, data_values) ==
    [result |-> result, topics_values |-> topics_values, data_values |-> data_values]

\* for input in self.inputs.iter().cloned() { .. decoded.push((input, decoded_value?)) }
RECURSIVE decode_inputs_loop(_, _, _, _)
decode_inputs_loop(inputs, topics_values, data_values, decoded) ==
    IF inputs = <<>> THEN RunEnd(LogOk(decoded), topics_values, data_values)
    ELSE LET input == Head(inputs) IN
         IF unwrap_or(input.indexed, FALSE)
         THEN IF topics_values = <<>>
              THEN RunEnd(LogErr("insufficient topics entries"), topics_values, data_values)
              ELSE LET decoded_value == decode_topic(Head(topics_values), input.type_)
                   IN IF decoded_value.status = "panic"
                      THEN RunEnd(LogPanic, Tail(topics_values), data_values)
                      ELSE IF decoded_value.status # "ok"
                      THEN RunEnd(LogErr(decoded_value.msg), Tail(topics_values), data_values)
                      ELSE decode_inputs_loop(
                               Tail(inputs), Tail(topics_values), data_values,
                               Append(decoded, [param |-> input,
                                                value |-> decoded_value.value]))
         ELSE IF data_values = <<>>
              THEN RunEnd(LogErr("insufficient data values"), topics_values, data_values)
              ELSE decode_inputs_loop(
                       Tail(inputs), topics_values, Tail(data_values),
                       Append(decoded, [param |-> input, value |-> Head(data_values)]))

\* the part of decode_data_from_slice after the event topic is stripped
decode_stripped(event, topics, data_values) ==
    IF data_values.status = "panic" THEN RunEnd(LogPanic, topics, <<>>)
    ELSE IF data_values.status # "ok" THEN RunEnd(LogErr(data_values.msg), topics, <<>>)
    ELSE decode_inputs_loop(event.inputs, topics, data_values.values, <<>>)

\* a decode that never strips the event topic
strip_event_topic_never(event, topics) == [some |-> TRUE, topics |-> topics]

\* if !self.anonymous { topics = topics.get(1..).ok_or_else(..)? }
strip_event_topic(event, topics) ==
    IF event.anonymous THEN [some |-> TRUE, topics |-> topics]
    ELSE IF Len(topics) < 1 THEN [some |-> FALSE, topics |-> <<>>]
    ELSE [some |-> TRUE, topics |-> Tail(topics)]

\* the body of Event::decode_data_from_slice, with the queues it ends with
decode_data_run(event, topics, data) ==
    LET stripped == strip_event_topic(event, topics)
    IN IF ~stripped.some THEN RunEnd(LogErr("missing event topic"), <<>>, <<>>)
       ELSE decode_stripped(event, stripped.topics,
                            Value_decode_from_slice(data, data_types(event.inputs)))

\* Event::decode_data_from_slice
Event_decode_data_from_slice(event, topics, data) ==
    decode_data_run(event, topics, data).result

(***************************************************************************)
(* The bounded input universe of the driver.                               *)
(***************************************************************************)
SeqsUpTo(S, n) == UNION {[1..k -> S] : k \in 0..n}

\* bytes of generated strings ("a", "b")
Chars == {97, 98}
\* limbs of generated Address / Hash values
Limbs == {0, MaxWord}

\* the tuple type of the test abi_json_work: (a: u32, b: string)
TupleAB ==
    TypeTuple(<<[name |-> "a", ty |-> TypeU32], [name |-> "b", ty |-> TypeString]>>)
\* a tuple with an Array followed by another field
TupleXsN ==
    TypeTuple(<<[name |-> "xs", ty |-> TypeArray(TypeU32)], [name |-> "n", ty |-> TypeU32]>>)

ValueTypes ==
    {TypeU32, TypeField, TypeBool, TypeAddress, TypeHash, TypeString, TypeFields,
     TypeFixedArray(TypeU32, 2), TypeFixedArray(TypeBool, 1), TypeFixedArray(TypeU32, 0),
     TypeArray(TypeU32), TypeArray(TypeBool),
     TypeTuple(<<>>), TupleAB, TupleXsN,
     TypeFixedArray(TypeArray(TypeU32), 2), TypeArray(TypeFixedArray(TypeU32, 2))}

\* the values of a type, within the bounds
RECURSIVE ValuesOf(_)
RECURSIVE ListsOf(_)
ValuesOf(ty) ==
    CASE ty.tag = "U32" -> {ValueU32(i) : i \in Words}
      [] ty.tag = "Field" -> {ValueField(i) : i \in Words}
      [] ty.tag = "Bool" -> {ValueBool(b) : b \in BOOLEAN}
      [] ty.tag = "Address" -> {ValueAddress(a) : a \in [1..WordsPerHash -> Limbs]}
      [] ty.tag = "Hash" -> {ValueHash(a) : a \in [1..WordsPerHash -> Limbs]}
      [] ty.tag = "String" -> {ValueString(s) : s \in SeqsUpTo(Chars, MaxLen)}
      [] ty.tag = "Fields" -> {ValueFields(s) : s \in SeqsUpTo(Words, MaxLen)}
      [] ty.tag = "FixedArray" ->
            {ValueFixedArray(vs, ty.ty) : vs \in [1..ty.size -> ValuesOf(ty.ty)]}
      [] ty.tag = "Array" ->
            {ValueArray(vs, ty.ty) : vs \in SeqsUpTo(ValuesOf(ty.ty), MaxLen)}
      [] ty.tag = "Tuple" ->
            {ValueTuple([k \in 1..Len(ty.tys) |->
                            [name |-> ty.tys[k].name, value |-> vs[k]]]) :
                vs \in ListsOf([k \in 1..Len(ty.tys) |-> ty.tys[k].ty])}

\* the value lists of a type list
ListsOf(tys) ==
    IF tys = <<>> THEN {<<>>}
    ELSE {<<v>> \o rest : v \in ValuesOf(Head(tys)), rest \in ListsOf(Tail(tys))}

\* type lists with more than one member (the input lists of the functions
\* below among them)
TypePairs ==
    {<<TypeArray(TypeU32), TypeU32>>, <<TypeU32, TypeBool>>, <<TypeU32, TypeString>>,
     <<TypeAddress, TypeFixedArray(TypeU32, 2)>>, <<TypeU32, TupleAB>>}

EncodeTypeLists == {<<>>} \cup {<<ty>> : ty \in ValueTypes} \cup TypePairs

\* the nested decode scenario: f("olavm", 12, [[1,2],[3]])
ScenarioTypes == <<TypeString, TypeU32, TypeFixedArray(TypeArray(TypeU32), 2)>>
ScenarioWords == <<5, 111, 108, 97, 118, 109, 12, 2, 1, 2, 1, 3>>
Olavm == <<111, 108, 97, 118, 109>>

\* value lists beyond the generated ones: the spec's and the examples' inputs
ExampleLists ==
    {<<ValueU32(12)>>, <<ValueString(Olavm)>>, <<ValueU32(60), ValueString(Olavm)>>,
     <<ValueFields(Olavm)>>}

ValueLists == UNION {ListsOf(tys) : tys \in EncodeTypeLists} \cup ExampleLists

DecodeTypeLists ==
    EncodeTypeLists \cup {ScenarioTypes, <<TypeBool, TypeArray(TypeU32)>>}

\* String payloads beyond the generated words: a word above 255 whose low
\* byte is "a", a byte that is no UTF-8, a two-byte character, a lone
\* continuation byte
WideA == ByteModulus + 97
StringStreams ==
    {<<1, WideA>>, <<2, 97, WideA>>, <<1, 255>>, <<2, 195, 169>>, <<1, 169>>, <<1, 97>>}

\* the last four streams have a length word at or next to usize::MAX
Streams ==
    SeqsUpTo(Words, MaxStream) \cup {ScenarioWords} \cup StringStreams
        \cup {<<UsizeMax>>, <<0, UsizeMax>>, <<UsizeMax - 1, 1>>, <<UsizeMax, 1>>}

\* the functions of the tables
FunName ==
    Function("funname",
             <<Param("", TypeAddress), Param("x", TypeFixedArray(TypeU32, 2))>>, <<>>)
FunGetWinnerName == Function("getWinnerName", <<>>, <<Param("", TypeU32)>>)
FunVoteTest == Function("vote_test", <<>>, <<>>)
FunVote ==
    Function("vote", <<Param("xs", TypeArray(TypeU32)), Param("n", TypeU32)>>, <<>>)
FunRecord ==
    Function("record", <<Param("id", TypeU32), Param("name", TypeString)>>, <<>>)
FunH == Function("h", <<Param("open", TypeBool)>>, <<>>)
FunVoteTuple == Function("vote", <<Param("n", TypeU32), Param("x", TupleAB)>>, <<>>)
FunSum == Function("sum", <<Param("xs", TypeArray(TypeU32))>>, <<Param("", TypeU32)>>)
FunF == Function("f", <<Param("x", TypeU32)>>, <<>>)
\* f declared a second time, with another parameter name and an output
FunFAgain == Function("f", <<Param("y", TypeU32)>>, <<Param("", TypeBool)>>)
\* two signatures whose Keccak-256 digests start with the same 4 bytes
FunCollideA == Function("f39615", <<Param("x", TypeU32)>>, <<>>)
FunCollideB == Function("f84403", <<Param("x", TypeU32)>>, <<>>)

AbiTables ==
    {Abi(<<>>), Abi(<<FunName>>), Abi(<<FunGetWinnerName, FunVoteTest, FunF, FunSum>>),
     Abi(<<FunVote, FunRecord, FunH, FunVoteTuple>>),
     Abi(<<FunCollideB, FunF, FunFAgain, FunCollideA>>)}

\* selectors of a table
MethodIds(a) == {Function_method_id(a.functions[k]) : k \in 1..Len(a.functions)}
\* signatures of a table
Signatures(a) == {Function_signature(a.functions[k]) : k \in 1..Len(a.functions)}

\* call-input streams: any first word (a selector of the table or not), then
\* any words
InputStreams(a) ==
    {<<>>} \cup {<<w>> \o rest : w \in MethodIds(a) \cup Words,
                                 rest \in SeqsUpTo(Words, MaxStream)}

\* description buffers: malformed JSON, the tables, an entry that is no
\* function, a function without a name
FileContents ==
    {[json_ok |-> FALSE, entries |-> <<>>]}
    \cup {[json_ok |-> TRUE,
           entries |-> [k \in 1..Len(a.functions) |->
                           AbiEntry("function", a.functions[k].name,
                                    a.functions[k].inputs, a.functions[k].outputs)]] :
             a \in AbiTables}
    \cup {[json_ok |-> TRUE, entries |-> <<AbiEntry("event", "Transfer", <<>>, <<>>)>>],
          [json_ok |-> TRUE, entries |-> <<AbiEntry("function", NoName, <<>>, <<>>)>>]}

\* call-input streams handed to the wrapper
WrapperStreams ==
    InputStreams(Abi(<<>>)) \cup
    {<<w>> \o rest : w \in UNION {MethodIds(a) : a \in AbiTables},
                     rest \in SeqsUpTo(Words, MaxLen)}

\* the function of the spec's signature example: f(n: u32, x: (a: u32, b: string))
FunFTuple == Function("f", <<Param("n", TypeU32), Param("x", TupleAB)>>, <<>>)

\* the functions of the tables
TableFunctions ==
    {FunName, FunGetWinnerName, FunVoteTest, FunVote, FunRecord, FunH, FunVoteTuple,
     FunSum, FunF}

\* ty with every tuple field, at any depth, given another name
RECURSIVE rename_fields(_)
rename_fields(ty) ==
    CASE ty.tag = "FixedArray" -> TypeFixedArray(rename_fields(ty.ty), ty.size)
      [] ty.tag = "Array" -> TypeArray(rename_fields(ty.ty))
      [] ty.tag = "Tuple" ->
            TypeTuple([k \in 1..Len(ty.tys) |->
                          [name |-> ty.tys[k].name \o "_", ty |-> rename_fields(ty.tys[k].ty)]])
      [] OTHER -> ty

\* f with other parameter names
with_param_names(f) ==
    Function(f.name, [k \in 1..Len(f.inputs) |-> Param("p", f.inputs[k].type_)], f.outputs)
\* f with other tuple field names inside its input types
with_field_names(f) ==
    Function(f.name,
             [k \in 1..Len(f.inputs) |->
                 Param(f.inputs[k].name, rename_fields(f.inputs[k].type_))],
             f.outputs)
\* f with another output list
with_outputs(f) == Function(f.name, f.inputs, <<Param("r", TypeBool)>>)
\* f under another name
with_name(f) == Function(f.name \o "2", f.inputs, f.outputs)
\* f with its inputs in reverse order
with_reversed_inputs(f) ==
    Function(f.name, [k \in 1..Len(f.inputs) |-> f.inputs[Len(f.inputs) + 1 - k]],
             f.outputs)

\* declarations that share f's name and input types
SameSelectorVariants(f) ==
    {f, with_param_names(f), with_field_names(f), with_outputs(f),
     with_outputs(with_field_names(with_param_names(f)))}

\* pairs of declarations whose signatures are taken: a function with its
\* variants, with a renamed or reordered one, and with the other functions
SignaturePairs ==
    {<<f, g>> : f \in TableFunctions \cup {FunFTuple},
                g \in UNION {SameSelectorVariants(h) \cup
                                {with_name(h), with_reversed_inputs(h)} :
                             h \in TableFunctions \cup {FunFTuple}}}

\* pairs of declarations whose selectors are taken
MethodIdPairs ==
    {<<f, g>> : f \in TableFunctions,
                g \in UNION {SameSelectorVariants(h) : h \in TableFunctions}}

\* number of topic slots of a generated log
MaxTopics == 2

\* topic slots of generated logs: the last word, or the first, carries a value
TopicSlots == {<<0, 0, 0, w>> : w \in Words} \cup {<<MaxWord, 0, 0, 1>>}

\* the log of the test test_decode_data_from_slice; the words of the event
\* topic are never read by decode_data_from_slice
TestTopic0 == <<3, 2, 1, 0>>
TestTopics == <<TestTopic0, <<0, 0, 0, 10>>, <<0, 0, 0, 11>>>>
TestData == <<1, 2, 3, 97, 98, 99>>
TestInputs ==
    <<EventParam("x", TypeU32, OptNone), EventParam("y", TypeU32, OptSome(TRUE)),
      EventParam("x1", TypeU32, OptNone), EventParam("y1", TypeU32, OptSome(TRUE)),
      EventParam("s", TypeString, OptNone)>>
TestEvent == Event("Test", TestInputs, FALSE)

\* input lists of generated events
EventInputLists ==
    {<<>>,
     TestInputs,
     <<EventParam("y", TypeU32, OptSome(TRUE))>>,
     <<EventParam("x", TypeU32, OptSome(FALSE)), EventParam("y", TypeBool, OptSome(TRUE))>>,
     <<EventParam("a", TypeAddress, OptSome(TRUE)), EventParam("x", TypeU32, OptNone),
       EventParam("s", TypeString, OptSome(TRUE))>>,
     <<EventParam("y", TypeField, OptSome(TRUE)), EventParam("h", TypeHash, OptSome(TRUE)),
       EventParam("t", TypeFixedArray(TypeU32, 2), OptSome(TRUE))>>,
     <<EventParam("xs", TypeArray(TypeU32), OptNone), EventParam("n", TypeU32, OptNone)>>,
     <<EventParam("y", TypeU32, OptSome(TRUE)), EventParam("a", TypeAddress, OptNone)>>,
     <<EventParam("xs", TypeArray(TypeU32), OptSome(TRUE)),
       EventParam("fs", TypeFields, OptSome(TRUE))>>,
     <<EventParam("t", TupleAB, OptSome(TRUE)), EventParam("n", TypeU32, OptNone)>>}

Events == {Event("Test", inputs, anonymous) :
              inputs \in EventInputLists, anonymous \in BOOLEAN}

TopicLists == SeqsUpTo(TopicSlots, MaxTopics) \cup {TestTopics}
DataStreams == SeqsUpTo(Words, MaxLen + 1) \cup {TestData, <<0, 0, 0, 0>>}

\* ty with the names of its tuple fields, at any depth, erased
RECURSIVE erase_names(_)
erase_names(ty) ==
    CASE ty.tag = "FixedArray" -> TypeFixedArray(erase_names(ty.ty), ty.size)
      [] ty.tag = "Array" -> TypeArray(erase_names(ty.ty))
      [] ty.tag = "Tuple" ->
            TypeTuple([k \in 1..Len(ty.tys) |->
                          [name |-> "", ty |-> erase_names(ty.tys[k].ty)]])
      [] OTHER -> ty

\* value with the empty name for every tuple field, at any depth
RECURSIVE unname_value_fields(_)
unname_value_fields(value) ==
    CASE value.tag \in {"FixedArray", "Array"} ->
            [value EXCEPT !.values = [k \in 1..Len(value.values) |->
                                         unname_value_fields(value.values[k])],
                          !.ty = erase_names(value.ty)]
      [] value.tag = "Tuple" ->
            ValueTuple([k \in 1..Len(value.values) |->
                           [name |-> "",
                            value |-> unname_value_fields(value.values[k].value)]])
      [] OTHER -> value

\* value lists with a Tuple
TupleValueLists == {vs \in ValueLists : \E k \in 1..Len(vs) : vs[k].tag = "Tuple"}

\* words appended to a stream
TrailingWords == {<<MaxWord>>, <<1, 0>>}

(***************************************************************************)
(* State: the arguments and the outcome of the calls made so far.          *)
(***************************************************************************)
VARIABLES
    pc,         \* driver position: "start", "encoded", "done"
    op,         \* the operation applied last
    vals,       \* Value::encode: its argument
    encoded,    \* Value::encode: its outcome
    bs,         \* Value::decode_from_slice: the word stream
    tys,        \* Value::decode_from_slice: the type list
    decoded,    \* Value::decode_from_slice: its outcome
    abi,        \* the ABI table of the Abi call
    input,      \* the word stream of the Abi call
    signature,  \* the signature string of the Abi call
    call,       \* outcome of decode_input_from_slice / decode_abi_wrapper
    framed,     \* outcome of encode_input_with_signature / encode_input_values
    input2,     \* a second word stream handed to decode_input_from_slice
    call2,      \* the outcome of decode_input_from_slice on input2
    funs,       \* the pair of Functions whose signature / method_id is taken
    sigs,       \* their signature() strings
    ids,        \* their method_id() values
    event,      \* the Event of decode_data_from_slice
    topics,     \* its topic slots
    data,       \* its data words
    log,        \* its outcome
    queues,     \* its outcome, with its queues as the call left them
    vals2,      \* Value::encode: the argument of a second call
    encoded2,   \* Value::encode: the outcome of the second call
    bs2,        \* Value::decode_from_slice: the stream of a second call
    tys2,       \* Value::decode_from_slice: the type list of the second call
    decoded2,   \* Value::decode_from_slice: the outcome of the second call
    topics2,    \* decode_data_from_slice: the topic slots of a second call
    data2,      \* decode_data_from_slice: the data words of the second call
    log2        \* decode_data_from_slice: the outcome of the second call

\* the variables of the Function::signature / method_id calls
describeVars == <<funs, sigs, ids>>
\* the variables of the Event::decode_data_from_slice call
logVars == <<event, topics, data, log>>

\* the variables of the second call of a pair of calls
pairVars == <<vals2, encoded2, bs2, tys2, decoded2, topics2, data2, log2>>

vars == <<pc, op, vals, encoded, bs, tys, decoded, abi, input, signature, call, framed,
          input2, call2, funs, sigs, ids, event, topics, data, log, queues,
          vals2, encoded2, bs2, tys2, decoded2, topics2, data2, log2, overflow_checks>>

Init ==
    /\ pc = "start"
    /\ op = "none"
    /\ vals = <<>>
    /\ encoded = EncOk(<<>>)
    /\ bs = <<>>
    /\ tys = <<>>
    /\ decoded = ResOk(<<>>)
    /\ abi = Abi(<<>>)
    /\ input = <<>>
    /\ signature = ""
    /\ call = CallErr("")
    /\ framed = WordsErr("")
    /\ input2 = <<>>
    /\ call2 = CallErr("")
    /\ funs = <<>>
    /\ sigs = <<>>
    /\ ids = <<>>
    /\ event = Event("", <<>>, TRUE)
    /\ topics = <<>>
    /\ data = <<>>
    /\ log = LogErr("")
    /\ queues = RunEnd(LogErr(""), <<>>, <<>>)
    /\ vals2 = <<>>
    /\ encoded2 = EncOk(<<>>)
    /\ bs2 = <<>>
    /\ tys2 = <<>>
    /\ decoded2 = ResOk(<<>>)
    /\ topics2 = <<>>
    /\ data2 = <<>>
    /\ log2 = LogErr("")
    /\ overflow_checks \in BOOLEAN

\* Value::encode(vs)
Encode(vs) ==
    /\ pc = "start"
    /\ pc' = "encoded"
    /\ op' = "encode"
    /\ vals' = vs
    /\ encoded' = Value_encode(vs)
    /\ UNCHANGED <<bs, tys, decoded, abi, input, signature, call, framed,
                   input2, call2, describeVars, logVars, queues, pairVars, overflow_checks>>

\* Value::decode_from_slice on the first n words of the encoder's output,
\* against the types of the encoded values
DecodeEncoded(n) ==
    /\ pc = "encoded"
    /\ encoded.status = "ok"
    /\ n \in 0..Len(encoded.buf)
    /\ pc' = "done"
    /\ op' = "decode_encoded"
    /\ bs' = SubSeq(encoded.buf, 1, n)
    /\ tys' = TypesOf(vals)
    /\ decoded' = Value_decode_from_slice(SubSeq(encoded.buf, 1, n), TypesOf(vals))
    /\ UNCHANGED <<vals, encoded, abi, input, signature, call, framed,
                   input2, call2, describeVars, logVars, queues, pairVars, overflow_checks>>

\* Value::decode_from_slice(ws, ts) on any stream
DecodeFromSlice(ws, ts) ==
    /\ pc = "start"
    /\ pc' = "done"
    /\ op' = "decode"
    /\ bs' = ws
    /\ tys' = ts
    /\ decoded' = Value_decode_from_slice(ws, ts)
    /\ UNCHANGED <<vals, encoded, abi, input, signature, call, framed,
                   input2, call2, describeVars, logVars, queues, pairVars, overflow_checks>>

\* Abi::decode_input_from_slice(ws) on any stream
DecodeInput(a, ws) ==
    /\ pc = "start"
    /\ pc' = "done"
    /\ op' = "decode_input"
    /\ abi' = a
    /\ input' = ws
    /\ call' = Abi_decode_input_from_slice(a, ws)
    /\ UNCHANGED <<vals, encoded, bs, tys, decoded, signature, framed,
                   input2, call2, describeVars, logVars, queues, pairVars, overflow_checks>>

\* the test abi_function_decode_input_from_slice: the encoded values framed
\* as [method_id, len, words...] for function k of the table, then decoded
DecodeFramed(a, k) ==
    /\ pc = "encoded"
    /\ encoded.status = "ok"
    /\ k \in 1..Len(a.functions)
    /\ inputs_types(a.functions[k]) = TypesOf(vals)
    /\ pc' = "done"
    /\ op' = "decode_framed"
    /\ abi' = a
    /\ signature' = Function_signature(a.functions[k])
    /\ input' = <<Function_method_id(a.functions[k]), Len(encoded.buf)>> \o encoded.buf
    /\ call' = Abi_decode_input_from_slice(a, input')
    /\ UNCHANGED <<vals, encoded, bs, tys, decoded, framed,
                   input2, call2, describeVars, logVars, queues, pairVars, overflow_checks>>

\* Abi::encode_input_with_signature(sig, params)
EncodeInputWithSignature(a, sig, params) ==
    /\ pc = "start"
    /\ pc' = "done"
    /\ op' = "encode_input_with_signature"
    /\ abi' = a
    /\ signature' = sig
    /\ vals' = params
    /\ framed' = Abi_encode_input_with_signature(a, sig, params)
    /\ UNCHANGED <<encoded, bs, tys, decoded, input, call,
                   input2, call2, describeVars, logVars, queues, pairVars, overflow_checks>>

\* decode_abi_wrapper(file_content, data)
DecodeAbiWrapper(fc, ws) ==
    /\ pc = "start"
    /\ pc' = "done"
    /\ op' = "decode_abi_wrapper"
    /\ abi' = fc
    /\ input' = ws
    /\ call' = decode_abi_wrapper(fc, ws)
    /\ UNCHANGED <<vals, encoded, bs, tys, decoded, signature, framed,
                   input2, call2, describeVars, logVars, queues, pairVars, overflow_checks>>

\* Abi::encode_input_values(params)
EncodeInputValues(params) ==
    /\ pc = "start"
    /\ pc' = "done"
    /\ op' = "encode_input_values"
    /\ vals' = params
    /\ framed' = Abi_encode_input_values(params)
    /\ UNCHANGED <<encoded, bs, tys, decoded, abi, input, signature, call,
                   input2, call2, describeVars, logVars, queues, pairVars, overflow_checks>>

\* Function::signature() of f and of g
Signature(f, g) ==
    /\ pc = "start"
    /\ pc' = "done"
    /\ op' = "signature"
    /\ funs' = <<f, g>>
    /\ sigs' = <<Function_signature(f), Function_signature(g)>>
    /\ UNCHANGED <<vals, encoded, bs, tys, decoded, abi, input, signature, call, framed,
                   input2, call2, ids, logVars, queues, pairVars, overflow_checks>>

\* Function::method_id() of f and of g
MethodId(f, g) ==
    /\ pc = "start"
    /\ pc' = "done"
    /\ op' = "method_id"
    /\ funs' = <<f, g>>
    /\ sigs' = <<Function_signature(f), Function_signature(g)>>
    /\ ids' = <<Function_method_id(f), Function_method_id(g)>>
    /\ UNCHANGED <<vals, encoded, bs, tys, decoded, abi, input, signature, call, framed,
                   input2, call2, logVars, queues, pairVars, overflow_checks>>

\* Event::decode_data_from_slice(ts, ws) of event e
DecodeData(e, ts, ws) ==
    /\ pc = "start"
    /\ pc' = "done"
    /\ op' = "decode_data"
    /\ event' = e
    /\ topics' = ts
    /\ data' = ws
    /\ queues' = decode_data_run(e, ts, ws)
    /\ log' = queues'.result
    /\ UNCHANGED <<vals, encoded, bs, tys, decoded, abi, input, signature, call, framed,
                   input2, call2, describeVars, pairVars, overflow_checks>>

\* Abi::decode_input_from_slice on ws and on ws2
DecodeInputPair(a, ws, ws2) ==
    /\ pc = "start"
    /\ Len(ws) >= 2
    /\ pc' = "done"
    /\ op' = "decode_input_pair"
    /\ abi' = a
    /\ input' = ws
    /\ call' = Abi_decode_input_from_slice(a, ws)
    /\ input2' = ws2
    /\ call2' = Abi_decode_input_from_slice(a, ws2)
    /\ UNCHANGED <<vals, encoded, bs, tys, decoded, signature, framed,
                   describeVars, logVars, queues, pairVars, overflow_checks>>

\* Event::decode_data_from_slice on (ts, ws) and on (ts2, ws2)
DecodeDataPair(e, ts, ws, ts2, ws2) ==
    /\ pc = "start"
    /\ pc' = "done"
    /\ op' = "decode_data_pair"
    /\ event' = e
    /\ topics' = ts
    /\ data' = ws
    /\ queues' = decode_data_run(e, ts, ws)
    /\ log' = queues'.result
    /\ topics2' = ts2
    /\ data2' = ws2
    /\ log2' = Event_decode_data_from_slice(e, ts2, ws2)
    /\ UNCHANGED <<vals, encoded, bs, tys, decoded, abi, input, signature, call, framed,
                   input2, call2, describeVars, vals2, encoded2, bs2, tys2, decoded2,
                   overflow_checks>>

\* Value::encode(vs) and Value::encode(ws)
EncodePair(vs, ws) ==
    /\ pc = "start"
    /\ pc' = "done"
    /\ op' = "encode_pair"
    /\ vals' = vs
    /\ encoded' = Value_encode(vs)
    /\ vals2' = ws
    /\ encoded2' = Value_encode(ws)
    /\ UNCHANGED <<bs, tys, decoded, abi, input, signature, call, framed, input2, call2,
                   describeVars, logVars, queues, bs2, tys2, decoded2, topics2, data2,
                   log2, overflow_checks>>

\* Value::decode_from_slice(ws, ts) and Value::decode_from_slice(ws2, ts2)
DecodeFromSlicePair(ws, ts, ws2, ts2) ==
    /\ pc = "start"
    /\ pc' = "done"
    /\ op' = "decode_pair"
    /\ bs' = ws
    /\ tys' = ts
    /\ decoded' = Value_decode_from_slice(ws, ts)
    /\ bs2' = ws2
    /\ tys2' = ts2
    /\ decoded2' = Value_decode_from_slice(ws2, ts2)
    /\ UNCHANGED <<vals, encoded, abi, input, signature, call, framed, input2, call2,
                   describeVars, logVars, queues, vals2, encoded2, topics2, data2,
                   log2, overflow_checks>>

\* signatures handed to encode_input_with_signature: declared ones and others
SignatureInputs == UNION {Signatures(a) : a \in AbiTables} \cup {"", "f(u32", "nope()"}

\* parameter lists handed to encode_input_with_signature
ParamLists ==
    UNION {ListsOf(ts) : ts \in {<<>>, <<TypeU32>>, <<TypeBool>>, <<TypeArray(TypeU32)>>,
                                 <<TypeU32, TypeString>>}}
    \cup {<<ValueAddress(<<0, 0, 0, 0>>), ValueFixedArray(elems, TypeU32)>> :
             elems \in {<<ValueU32(1)>>, <<ValueU32(1), ValueU32(2)>>}}

\* the driver makes one call from "start", or decodes what it has encoded
Next ==
    \/ pc = "start" /\ \E p \in SignaturePairs : Signature(p[1], p[2])
    \/ pc = "start" /\ \E vs \in ValueLists : Encode(vs)
    \/ pc = "encoded" /\ \E n \in 0..Len(encoded.buf) : DecodeEncoded(n)
    \/ pc = "start" /\ \E ws \in Streams, ts \in DecodeTypeLists : DecodeFromSlice(ws, ts)
    \/ pc = "start" /\ \E ws \in SeqsUpTo(Words, MaxLen),
                             ts \in {<<TypeArray(TypeTuple(<<>>))>>,
                                     <<TypeArray(TypeFixedArray(TypeU32, 0))>>,
                                     <<TypeArray(TypeTuple(<<>>)), TypeU32>>} :
                          DecodeFromSlice(ws, ts)
    \/ pc = "start" /\ \E a \in AbiTables : \E ws \in InputStreams(a) : DecodeInput(a, ws)
    \/ pc = "encoded" /\ \E a \in AbiTables : \E k \in 1..Len(a.functions) : DecodeFramed(a, k)
    \/ pc = "start" /\ \E a \in AbiTables, sig \in SignatureInputs, params \in ParamLists :
                          EncodeInputWithSignature(a, sig, params)
    \/ pc = "start" /\ \E fc \in FileContents, ws \in WrapperStreams :
                              DecodeAbiWrapper(fc, ws)
    \/ pc = "start" /\ \E params \in ParamLists : EncodeInputValues(params)
    \/ pc = "start" /\ \E a \in AbiTables : \E ws \in InputStreams(a), w \in Words :
                          DecodeInputPair(a, ws, [ws EXCEPT ![2] = w])
    \/ pc = "start" /\ \E a \in AbiTables : \E ws \in InputStreams(a), extra \in TrailingWords :
                          DecodeInputPair(a, ws, ws \o extra)
    \/ pc = "start" /\ \E ws \in SeqsUpTo(Words, MaxLen), ts \in DecodeTypeLists,
                             extra \in TrailingWords :
                          DecodeFromSlicePair(ws, ts, ws \o extra, ts)
    \/ pc = "start" /\ \E e \in Events,
                             ts \in SeqsUpTo(TopicSlots, 1) \cup {TestTopics, Tail(TestTopics)},
                             ws \in SeqsUpTo(Words, MaxLen) \cup {TestData},
                             more \in {<<<<TestTopic0>>, <<>>>>, <<<<>>, <<1, 0>>>>,
                                       <<<<TestTopic0>>, <<1, 0>>>>} :
                          DecodeDataPair(e, ts, ws, ts \o more[1], ws \o more[2])
    \/ pc = "start" /\ \E e \in Events, ts \in TopicLists, ws \in DataStreams :
                          DecodeData(e, ts, ws)
    \/ pc = "start" /\ \E p \in MethodIdPairs : MethodId(p[1], p[2])
    \/ pc = "start" /\ \E vs \in TupleValueLists :
                          \E ws \in {[k \in 1..Len(vs) |-> unname_value_fields(vs[k])]}
                                       \cup {l \in TupleValueLists : TypesOf(l) = TypesOf(vs)} :
                             EncodePair(vs, ws)
    \/ pc = "start" /\ \E ws \in SeqsUpTo(Words, MaxStream),
                             ts \in {<<TupleAB>>, <<TupleXsN>>, <<TypeTuple(<<>>)>>,
                                     <<TypeU32, TupleAB>>, <<TupleXsN, TypeU32>>,
                                     <<TupleAB, TypeU32>>} :
                          DecodeFromSlicePair(ws, ts, ws,
                                              [k \in 1..Len(ts) |-> rename_fields(ts[k])])

Spec == Init /\ [][Next]_vars

(***************************************************************************)
(* Properties                                                              *)
(***************************************************************************)
\* the concatenation of a sequence of word sequences
RECURSIVE Flatten(_)
Flatten(seqs) == IF seqs = <<>> THEN <<>> ELSE Head(seqs) \o Flatten(Tail(seqs))

\* C1: round trip: Value::encode([v]) completes, and decoding its output
\* against [type_of(v)] returns exactly [v].
C1_RoundTrip ==
    /\ (op = "encode" /\ Len(vals) = 1) => encoded.status = "ok"
    /\ (op = "decode_encoded" /\ Len(vals) = 1 /\ bs = encoded.buf)
          => decoded = ResOk(vals)

\* C2: the consumed count of a decoded Array includes its length word: what
\* follows an Array (in the type list, in a Tuple, in a FixedArray) is read
\* from the first word after the Array's length word and its elements.
C2_ArrayConsumedIncludesPrefix ==
    /\ (op = "decode" /\ tys = <<TypeArray(TypeU32), TypeU32>> /\ decoded.status = "ok")
          => /\ Len(bs) >= Len(decoded.values[1].values) + 2
             /\ decoded.values[2] = ValueU32(bs[Len(decoded.values[1].values) + 2])
    /\ (op = "decode" /\ tys = <<TupleXsN>> /\ decoded.status = "ok")
          => LET fields == decoded.values[1].values
             IN /\ Len(bs) >= Len(fields[1].value.values) + 2
                /\ fields[2].value = ValueU32(bs[Len(fields[1].value.values) + 2])
    /\ (op = "decode" /\ tys = <<TypeFixedArray(TypeArray(TypeU32), 2)>>
           /\ decoded.status = "ok")
          => LET elems == decoded.values[1].values
             IN /\ Len(bs) >= Len(elems[1].values) + 2
                /\ Len(elems[2].values) = bs[Len(elems[1].values) + 2]

\* C3: the nested decode scenario: [String, U32, FixedArray(Array(U32), 2)]
\* on [5,111,108,97,118,109,12,2,1,2,1,3] gives ["olavm", 12, [[1,2],[3]]].
C3_NestedScenario ==
    (op = "decode" /\ bs = ScenarioWords /\ tys = ScenarioTypes)
       => decoded = ResOk(<<ValueString(Olavm), ValueU32(12),
                            ValueFixedArray(
                                <<ValueArray(<<ValueU32(1), ValueU32(2)>>, TypeU32),
                                  ValueArray(<<ValueU32(3)>>, TypeU32)>>,
                                TypeArray(TypeU32))>>)

\* C4: a strict prefix of encode(vs) is rejected with an error by
\* decode_from_slice against the types of vs; a successful decode returns
\* one value per requested type.
C4_TruncatedRejected ==
    /\ (op = "decode_encoded" /\ Len(bs) < Len(encoded.buf)) => decoded.status = "err"
    /\ (op \in {"decode", "decode_encoded"} /\ decoded.status = "ok")
          => Len(decoded.values) = Len(tys)

\* C5: a lookup that matches nothing is an error value: a first word that is
\* no declared method_id, and a signature that is no declared signature,
\* both give Err("ABI function not found"), never a function, words or a panic.
C5_LookupFailure ==
    /\ (op = "decode_input" /\ Len(input) > 0 /\ input[1] \notin MethodIds(abi))
          => call = CallErr("ABI function not found")
    /\ (op = "encode_input_with_signature" /\ signature \notin Signatures(abi))
          => framed = WordsErr("ABI function not found")

\* C5 witness: a non-empty table is asked for a selector it does not declare
C5_Witness ==
    /\ op = "decode_input"
    /\ Len(abi.functions) > 1
    /\ Len(input) > 2
    /\ input[1] \notin MethodIds(abi)
    /\ call.status = "err"

\* C6: no panic on malformed call input: decode_input_from_slice and
\* decode_abi_wrapper return a result or an error for every stream, the
\* empty stream and the one-word stream included.
C6_NoPanic ==
    op \in {"decode_input", "decode_abi_wrapper"} => call.status \in {"ok", "err"}

\* C7: call-input round trip: in a table with pairwise distinct selectors,
\* [method_id(f), len, encode(vs)...] decodes to f and its inputs paired, in
\* order, with vs, for every vs of f's input types.
C7_InputRoundTrip ==
    /\ (op = "encode"
           /\ \E a \in AbiTables : \E k \in 1..Len(a.functions) :
                 inputs_types(a.functions[k]) = TypesOf(vals))
          => encoded.status = "ok"
    /\ (op = "decode_framed" /\ Cardinality(MethodIds(abi)) = Len(abi.functions))
          => \E k \in 1..Len(abi.functions) :
                /\ Function_signature(abi.functions[k]) = signature
                /\ call.status = "ok"
                /\ call.f = abi.functions[k]
                /\ call.params = [j \in 1..Len(vals) |->
                                     [param |-> abi.functions[k].inputs[j],
                                      value |-> vals[j]]]

\* C8: a Bool is encoded as one word, 1 for true and 0 for false, at any
\* position of the value list, and encode completes.
C8_BoolOneWord ==
    (op = "encode" /\ TypesOf(vals) \in {<<TypeBool>>, <<TypeU32, TypeBool>>})
       => encoded = EncOk([k \in 1..Len(vals) |->
                              IF vals[k].tag = "U32" THEN vals[k].i
                              ELSE IF vals[k].b THEN 1 ELSE 0])

\* C9: a String of n bytes / a Fields of n elements is encoded as n + 1
\* words, n and then the bytes / elements, for every n >= 0, and encode
\* completes; encode([String("olavm")]) = [5,111,108,97,118,109].
C9_StringFieldsWords ==
    /\ (op = "encode" /\ Len(vals) = 1 /\ vals[1].tag = "String")
          => encoded = EncOk(<<Len(vals[1].s)>> \o vals[1].s)
    /\ (op = "encode" /\ Len(vals) = 1 /\ vals[1].tag = "Fields")
          => encoded = EncOk(<<Len(vals[1].value)>> \o vals[1].value)

\* the encoding of each element of elems on its own
ElementEncodings(elems) == [k \in 1..Len(elems) |-> Value_encode(<<elems[k]>>)]

\* C10: an Array of k elements is encoded as the word k followed by the
\* encodings of its elements in order, appended to what precedes it;
\* encode([U32(12)]) = [12], encode([Array([U32(1),U32(2)], U32)]) = [2,1,2].
C10_ArrayEncoding ==
    /\ \A j \in 1..Len(vals) :
          (op = "encode" /\ vals[j].tag = "Array" /\ encoded.status = "ok")
             => LET each == ElementEncodings(vals[j].values)
                IN encoded.buf =
                      Value_encode(SubSeq(vals, 1, j - 1)).buf
                         \o <<Len(vals[j].values)>>
                         \o Flatten([k \in 1..Len(each) |-> each[k].buf])
                         \o Value_encode(SubSeq(vals, j + 1, Len(vals))).buf
    /\ (op = "encode" /\ vals = <<ValueU32(12)>>) => encoded = EncOk(<<12>>)
    /\ (op = "encode" /\ vals = <<ValueArray(<<ValueU32(1), ValueU32(2)>>, TypeU32)>>)
          => encoded = EncOk(<<2, 1, 2>>)

\* C10 witness: an Array of two U32 followed by another value was encoded
C10_Witness ==
    /\ op = "encode"
    /\ vals = <<ValueArray(<<ValueU32(1), ValueU32(2)>>, TypeU32), ValueU32(0)>>
    /\ encoded = EncOk(<<2, 1, 2, 0>>)

\* the members of a FixedArray or Tuple value, in order
MembersOf(value) ==
    IF value.tag = "Tuple" THEN tuple_values(value.values) ELSE value.values

\* C11: a FixedArray or Tuple is encoded with no length prefix: it
\* contributes exactly the encodings of its members in order (their word
\* counts summed; no word for an empty one), and encode([it]) is
\* encode(members), completing exactly when that does.
C11_NoLengthPrefix ==
    /\ \A j \in 1..Len(vals) :
          (op = "encode" /\ vals[j].tag \in {"FixedArray", "Tuple"}
              /\ encoded.status = "ok")
             => LET each == ElementEncodings(MembersOf(vals[j]))
                IN encoded.buf =
                      Value_encode(SubSeq(vals, 1, j - 1)).buf
                         \o Flatten([k \in 1..Len(each) |-> each[k].buf])
                         \o Value_encode(SubSeq(vals, j + 1, Len(vals))).buf
    /\ (op = "encode" /\ Len(vals) = 1 /\ vals[1].tag \in {"FixedArray", "Tuple"})
          => /\ encoded = Value_encode(MembersOf(vals[1]))
             /\ MembersOf(vals[1]) = <<>> => encoded = EncOk(<<>>)

\* C11 witness: a FixedArray of two U32 after an Address was encoded as its
\* two members, with no prefix
C11_Witness ==
    /\ op = "encode"
    /\ TypesOf(vals) = <<TypeAddress, TypeFixedArray(TypeU32, 2)>>
    /\ vals[2].values = <<ValueU32(1), ValueU32(2)>>
    /\ encoded.status = "ok"
    /\ SubSeq(encoded.buf, WordsPerHash + 1, Len(encoded.buf)) = <<1, 2>>

\* f and g have the same name and the same ordered list of input types
SameNameAndInputTypes(f, g) ==
    /\ f.name = g.name
    /\ Len(f.inputs) = Len(g.inputs)
    /\ \A k \in 1..Len(f.inputs) :
          erase_names(f.inputs[k].type_) = erase_names(g.inputs[k].type_)

\* C12: selector determinism: two Functions with the same name and the same
\* ordered input types have equal signature() and equal method_id(),
\* whatever their parameter names, tuple field names and output lists are.
C12_SelectorDeterminism ==
    /\ (op \in {"signature", "method_id"} /\ SameNameAndInputTypes(funs[1], funs[2]))
          => sigs[1] = sigs[2]
    /\ (op = "method_id" /\ SameNameAndInputTypes(funs[1], funs[2]))
          => ids[1] = ids[2]

\* C12 witness: vote(n: u32, x: (a: u32, b: string)) and a declaration with
\* other parameter names, tuple field names and outputs got one selector
C12_Witness ==
    /\ op = "method_id"
    /\ funs[1] = FunVoteTuple
    /\ funs[2] = with_outputs(with_field_names(with_param_names(FunVoteTuple)))
    /\ funs[1].inputs # funs[2].inputs
    /\ ids[1] = ids[2]

\* the canonical strings of the input types the declarations use
CanonicalString(ty) ==
    CASE ty = TypeU32 -> "u32"
      [] ty = TypeAddress -> "address"
      [] ty = TypeBool -> "bool"
      [] ty = TypeString -> "string"
      [] ty = TypeFixedArray(TypeU32, 2) -> "u32[2]"
      [] ty = TypeArray(TypeU32) -> "u32[]"
      [] erase_names(ty) = erase_names(TupleAB) -> "(u32,string)"

\* strs joined by ","
RECURSIVE JoinComma(_)
JoinComma(strs) ==
    IF strs = <<>> THEN ""
    ELSE IF Len(strs) = 1 THEN Head(strs)
    ELSE Head(strs) \o "," \o JoinComma(Tail(strs))

\* C13: signature formatting: signature() is the name, "(", the canonical
\* strings of the input types joined by "," without spaces, ")"; a tuple is
\* the parenthesised list of its member types without field names, a fixed
\* array T[n], an array T[]; f(n: u32, x: (a: u32, b: string)) gives
\* "f(u32,(u32,string))" and funname(address, u32[2]) "funname(address,u32[2])".
C13_SignatureFormat ==
    /\ \A j \in 1..Len(funs) :
          op = "signature"
             => sigs[j] = funs[j].name \o "("
                             \o JoinComma([k \in 1..Len(funs[j].inputs) |->
                                              CanonicalString(funs[j].inputs[k].type_)])
                             \o ")"
    /\ (op = "signature" /\ funs[1] = FunFTuple) => sigs[1] = "f(u32,(u32,string))"
    /\ (op = "signature" /\ funs[1] = FunName) => sigs[1] = "funname(address,u32[2])"

\* C13 witness: the signature of f(n: u32, x: (a: u32, b: string)) and of
\* the same declaration with other tuple field names was taken
C13_Witness ==
    /\ op = "signature"
    /\ funs[1] = FunFTuple
    /\ funs[2] = with_field_names(FunFTuple)
    /\ sigs = <<"f(u32,(u32,string))", "f(u32,(u32,string))">>

\* the first function of the table with the given signature
FirstWithSignature(a, sig) ==
    a.functions[CHOOSE k \in 1..Len(a.functions) :
                   /\ Function_signature(a.functions[k]) = sig
                   /\ \A j \in 1..(k - 1) : Function_signature(a.functions[j]) # sig]

\* C14: call-input framing: with a declared signature,
\* encode_input_with_signature returns r with r[0] the method_id of the
\* matched function, r[1] = len(r) - 2 = len(encode(values)) and
\* r[2..] = encode(values); encode_input_values returns r with
\* r[0] = len(r) - 1 and r[1..] = encode(values).  Both complete exactly when
\* Value::encode(values) does.
C14_Framing ==
    /\ (op = "encode_input_with_signature" /\ signature \in Signatures(abi))
          => LET enc == Value_encode(vals)
                 r == framed.words
             IN IF enc.status = "panic" THEN framed.status = "panic"
                ELSE /\ framed.status = "ok"
                     /\ Len(r) >= 2
                     /\ r[1] = Function_method_id(FirstWithSignature(abi, signature))
                     /\ r[2] = Len(r) - 2
                     /\ r[2] = Len(enc.buf)
                     /\ SubSeq(r, 3, Len(r)) = enc.buf
    /\ op = "encode_input_values"
          => LET enc == Value_encode(vals)
                 r == framed.words
             IN IF enc.status = "panic" THEN framed.status = "panic"
                ELSE /\ framed.status = "ok"
                     /\ Len(r) >= 1
                     /\ r[1] = Len(r) - 1
                     /\ SubSeq(r, 2, Len(r)) = enc.buf

\* C14 witness: record(u32,string) was framed around a two-word encoding
C14_Witness ==
    /\ op = "encode_input_with_signature"
    /\ signature = "record(u32,string)"
    /\ vals = <<ValueU32(MaxWord), ValueString(<<>>)>>
    /\ framed = WordsOk(<<Function_method_id(FunRecord), 2, MaxWord, 0>>)

\* the topic slots left for the indexed inputs of the decoded log
RemainingTopics == IF event.anonymous THEN topics ELSE Tail(topics)

\* the number of indexed inputs among the first k declared inputs
IndexedUpTo(k) ==
    Cardinality({j \in 1..k : event.inputs[j].indexed = OptSome(TRUE)})

\* the value an indexed input of type ty takes from a topic slot
TopicValue(slot, ty) ==
    CASE ty.tag \in {"FixedArray", "Array", "Fields", "String", "Tuple"} -> ValueHash(slot)
      [] ty.tag = "U32" -> ValueU32(slot[4])
      [] ty.tag = "Field" -> ValueField(slot[4])
      [] ty.tag = "Bool" -> ValueBool(slot[4] = 1)
      [] ty.tag = "Address" -> ValueAddress(slot)
      [] ty.tag = "Hash" -> ValueHash(slot)

\* C15: a successful decode_data_from_slice returns one (Param, Value) pair
\* per declared input, in declared order: the j-th indexed input takes the
\* j-th topic slot left after the event topic, the j-th input that is not
\* indexed (indexed absent or false) the j-th value decoded from data; the
\* test's log decodes to x=1, y=10, x1=2, y1=11, s="abc".
C15_DeclaredOrder ==
    /\ (op = "decode_data" /\ log.status = "ok")
          => /\ Len(log.params) = Len(event.inputs)
             /\ \A k \in 1..Len(event.inputs) :
                   /\ log.params[k].param = event.inputs[k]
                   /\ log.params[k].value =
                         IF event.inputs[k].indexed = OptSome(TRUE)
                         THEN TopicValue(RemainingTopics[IndexedUpTo(k)],
                                         event.inputs[k].type_)
                         ELSE Value_decode_from_slice(
                                  data,
                                  [j \in 1..Len(event.inputs) - IndexedUpTo(Len(event.inputs)) |->
                                      event.inputs[CHOOSE i \in 1..Len(event.inputs) :
                                                      /\ event.inputs[i].indexed # OptSome(TRUE)
                                                      /\ i - IndexedUpTo(i) = j].type_]
                              ).values[k - IndexedUpTo(k)]
    /\ (op = "decode_data" /\ event = TestEvent /\ topics = TestTopics /\ data = TestData)
          => log = LogOk(<<[param |-> TestInputs[1], value |-> ValueU32(1)],
                           [param |-> TestInputs[2], value |-> ValueU32(10)],
                           [param |-> TestInputs[3], value |-> ValueU32(2)],
                           [param |-> TestInputs[4], value |-> ValueU32(11)],
                           [param |-> TestInputs[5], value |-> ValueString(<<97, 98, 99>>)]>>)

\* C15 witness: the test's log was decoded, all five inputs returned
C15_Witness ==
    /\ op = "decode_data"
    /\ event = TestEvent
    /\ topics = TestTopics
    /\ data = TestData
    /\ log.status = "ok"
    /\ Len(log.params) = 5

\* the position of the first indexed input of the decoded event, 0 if none
FirstIndexed ==
    IF \E k \in 1..Len(event.inputs) : event.inputs[k].indexed = OptSome(TRUE)
    THEN CHOOSE k \in 1..Len(event.inputs) :
            /\ event.inputs[k].indexed = OptSome(TRUE)
            /\ IndexedUpTo(k) = 1
    ELSE 0

\* C16: topic-0 handling: a non-anonymous event discards the first topic
\* slot and takes its indexed inputs from topics[1..], and an empty topic list
\* is the error "missing event topic"; an anonymous event discards no slot,
\* topics[0] is the value of its first indexed input.
C16_Topic0 ==
    /\ (op = "decode_data" /\ ~event.anonymous /\ topics = <<>>)
          => log = LogErr("missing event topic")
    /\ (op = "decode_data" /\ event.anonymous) => log.msg # "missing event topic"
    /\ (op = "decode_data" /\ log.status = "ok" /\ FirstIndexed > 0)
          => log.params[FirstIndexed].value =
                TopicValue(topics[IF event.anonymous THEN 1 ELSE 2],
                           event.inputs[FirstIndexed].type_)

\* C16 witness: a non-anonymous event took its indexed input from topics[1]
C16_Witness ==
    /\ op = "decode_data"
    /\ ~event.anonymous
    /\ event.inputs = <<EventParam("y", TypeU32, OptSome(TRUE))>>
    /\ topics = <<<<0, 0, 0, 0>>, <<0, 0, 0, MaxWord>>>>
    /\ log = LogOk(<<[param |-> event.inputs[1], value |-> ValueU32(MaxWord)]>>)

\* the fewest words an encoding of type ty has
RECURSIVE MinWords(_)
RECURSIVE MinWordsOfAll(_)
MinWords(ty) ==
    CASE ty.tag \in {"Address", "Hash"} -> WordsPerHash
      [] ty.tag = "FixedArray" -> MinWordsOfAll([k \in 1..ty.size |-> ty.ty])
      [] ty.tag = "Tuple" -> MinWordsOfAll([k \in 1..Len(ty.tys) |-> ty.tys[k].ty])
      [] OTHER -> 1
MinWordsOfAll(types) ==
    IF types = <<>> THEN 0 ELSE MinWords(Head(types)) + MinWordsOfAll(Tail(types))

\* C17: event decode fails when topics run out or data is too short: fewer
\* topic slots left after topic-0 handling than indexed inputs, or fewer data
\* words than the shortest encoding of the non-indexed input types, is an
\* error, and no params are returned.
C17_TopicsOrDataShort ==
    /\ (op = "decode_data" /\ (event.anonymous \/ topics # <<>>)
           /\ Len(RemainingTopics) < IndexedUpTo(Len(event.inputs)))
          => log.status = "err" /\ log.params = <<>>
    /\ (op = "decode_data"
           /\ Len(data) < MinWordsOfAll(
                              [j \in 1..Len(event.inputs) - IndexedUpTo(Len(event.inputs)) |->
                                  event.inputs[CHOOSE i \in 1..Len(event.inputs) :
                                                  /\ event.inputs[i].indexed # OptSome(TRUE)
                                                  /\ i - IndexedUpTo(i) = j].type_]))
          => log.status = "err" /\ log.params = <<>>

\* the payload words of a String at the head of the stream bs
StringPayload(stream) == SubSeq(stream, 2, 1 + stream[1])

\* C18: String decoding rejects a payload that is not a valid UTF-8 byte
\* sequence, a payload with a word above 255 included: no word is reduced
\* modulo 256 to make it a byte.
C18_StringRejectsNonUtf8 ==
    (op = "decode" /\ tys = <<TypeString>> /\ Len(bs) >= 1 /\ Len(bs) - 1 >= bs[1]
        /\ (\/ \E k \in 1..Len(StringPayload(bs)) : StringPayload(bs)[k] >= ByteModulus
            \/ ~String_from_utf8_ok(StringPayload(bs))))
       => decoded.status = "err"

\* the values vs match the declared inputs of f in count and shape
MatchesInputs(vs, f) ==
    /\ Len(vs) = Len(f.inputs)
    /\ \A k \in 1..Len(vs) :
          erase_names(Value_type_of(vs[k])) = erase_names(f.inputs[k].type_)

\* C19: structural mismatch is an error: encode_input_with_signature returns
\* an error, and no words, when the values do not match the matched
\* function's declared input types in count or shape (a FixedArray value of
\* another length than declared, for one).
C19_StructuralMismatch ==
    (op = "encode_input_with_signature" /\ signature \in Signatures(abi)
        /\ ~MatchesInputs(vals, FirstWithSignature(abi, signature)))
       => framed.status = "err" /\ framed.words = <<>>

\* C20: the paramWordCount word is not consulted by decoding: two input
\* streams that differ only in words[1] get the same outcome from
\* decode_input_from_slice (the same function and params, or the same
\* error); the parameters are decoded from words[2..].
C20_ParamWordCountIgnored ==
    (/\ op = "decode_input_pair"
     /\ Len(input2) = Len(input)
     /\ \A k \in 1..Len(input) : k # 2 => input2[k] = input[k])
       => /\ call2 = call
          /\ call.status = "ok"
                => LET r == Value_decode_from_slice(SubSeq(input, 3, Len(input)),
                                                    inputs_types(call.f))
                   IN /\ r.status = "ok"
                      /\ \A k \in 1..Len(call.params) : call.params[k].value = r.values[k]

\* C20 witness: a stream whose words[1] is not its parameter word count, and
\* the stream with another words[1], decoded to the same non-empty params
C20_Witness ==
    /\ op = "decode_input_pair"
    /\ Len(input2) = Len(input)
    /\ input[2] # input2[2]
    /\ input[2] # Len(input) - 2
    /\ call.status = "ok"
    /\ Len(call.params) > 0
    /\ call2 = call

\* the types an indexed input is hashed for
HashedTags == {"FixedArray", "Array", "Fields", "String", "Tuple"}

\* C21: an indexed input of type FixedArray, Array, Fields, String or Tuple
\* is returned as Value::Hash of its topic slot, verbatim, whatever the slot
\* holds; the slot is not decoded against the declared type, so with enough
\* slots an event whose inputs are all such indexed inputs always decodes.
C21_HashedVerbatim ==
    /\ (op = "decode_data" /\ log.status = "ok")
          => \A k \in 1..Len(event.inputs) :
                (event.inputs[k].indexed = OptSome(TRUE)
                    /\ event.inputs[k].type_.tag \in HashedTags)
                   => log.params[k].value = ValueHash(RemainingTopics[IndexedUpTo(k)])
    /\ (op = "decode_data" /\ (event.anonymous \/ topics # <<>>)
           /\ Len(RemainingTopics) >= Len(event.inputs)
           /\ \A k \in 1..Len(event.inputs) :
                 /\ event.inputs[k].indexed = OptSome(TRUE)
                 /\ event.inputs[k].type_.tag \in HashedTags)
          => log.status = "ok"

\* C21 witness: indexed u32[] and fields inputs came back as the Hash of
\* slots that are no encoding of such values
C21_Witness ==
    /\ op = "decode_data"
    /\ event.anonymous
    /\ Len(event.inputs) = 2
    /\ event.inputs[1].type_ = TypeArray(TypeU32)
    /\ event.inputs[2].type_ = TypeFields
    /\ topics = <<<<MaxWord, 0, 0, 1>>, <<0, 0, 0, MaxWord>>>>
    /\ log.status = "ok"
    /\ log.params[1].value = ValueHash(<<MaxWord, 0, 0, 1>>)
    /\ log.params[2].value = ValueHash(<<0, 0, 0, MaxWord>>)

\* C22: an indexed U32, Bool or Field input is decoded from the 4th word of
\* its slot only: it is what decode_from_slice gives for the one-word stream
\* [slot[3]], whatever slot[0..2] hold; an indexed Address or Hash input is
\* decoded from the four words of the slot.
C22_NarrowFromLastWord ==
    (op = "decode_data" /\ log.status = "ok")
       => \A k \in 1..Len(event.inputs) :
             event.inputs[k].indexed = OptSome(TRUE)
                => LET slot == RemainingTopics[IndexedUpTo(k)]
                       ty == event.inputs[k].type_
                   IN /\ ty.tag \in {"U32", "Bool", "Field"}
                            => log.params[k].value =
                                  Value_decode_from_slice(<<slot[4]>>, <<ty>>).values[1]
                      /\ ty.tag = "Address" => log.params[k].value = ValueAddress(slot)
                      /\ ty.tag = "Hash" => log.params[k].value = ValueHash(slot)

\* C22 witness: an indexed bool was read from the last word of a slot whose
\* first word is not 0
C22_Witness ==
    /\ op = "decode_data"
    /\ Len(event.inputs) = 2
    /\ event.inputs[2] = EventParam("y", TypeBool, OptSome(TRUE))
    /\ event.anonymous
    /\ topics = <<<<MaxWord, 0, 0, 1>>>>
    /\ log.status = "ok"
    /\ log.params[2].value = ValueBool(TRUE)

\* the value lists vs and ws differ in tuple field names only
SameUpToFieldNames(vs, ws) ==
    /\ Len(vs) = Len(ws)
    /\ \A k \in 1..Len(vs) : unname_value_fields(vs[k]) = unname_value_fields(ws[k])

\* C23: tuple field names never affect the wire format: two value lists
\* that differ in tuple field names only encode to the same words, and one
\* stream decoded against two type lists that differ in tuple field names
\* only gives the same outcome, with the same member values at the same
\* positions and the same values after the tuple; the names in each result
\* are those of its type.
C23_FieldNamesIgnored ==
    /\ (op = "encode_pair" /\ SameUpToFieldNames(vals, vals2)) => encoded = encoded2
    /\ (op = "decode_pair" /\ bs = bs2 /\ Len(tys) = Len(tys2)
           /\ \A k \in 1..Len(tys) : erase_names(tys[k]) = erase_names(tys2[k]))
          => /\ decoded.status = decoded2.status
             /\ decoded.msg = decoded2.msg
             /\ SameUpToFieldNames(decoded.values, decoded2.values)
             /\ decoded.status = "ok"
                   => /\ TypesOf(decoded.values) = tys
                      /\ TypesOf(decoded2.values) = tys2

\* C23 witness: (xs: [1], n: 2) and the same tuple without field names were
\* encoded to the same three words
C23_Witness ==
    /\ op = "encode_pair"
    /\ vals # vals2
    /\ vals2 = <<unname_value_fields(vals[1])>>
    /\ Value_type_of(vals[1]) = TupleXsN
    /\ encoded = EncOk(<<1, 1, 2>>)
    /\ encoded2 = EncOk(<<1, 1, 2>>)

\* value is a value of type ty, at every depth
RECURSIVE WellTyped(_, _)
WellTyped(value, ty) ==
    /\ value.tag = ty.tag
    /\ Value_type_of(value) = ty
    /\ CASE ty.tag = "FixedArray" ->
                /\ Len(value.values) = ty.size
                /\ value.ty = ty.ty
                /\ \A k \in 1..Len(value.values) : WellTyped(value.values[k], ty.ty)
          [] ty.tag = "Array" ->
                /\ value.ty = ty.ty
                /\ \A k \in 1..Len(value.values) : WellTyped(value.values[k], ty.ty)
          [] ty.tag = "Tuple" ->
                /\ Len(value.values) = Len(ty.tys)
                /\ \A k \in 1..Len(ty.tys) :
                      /\ value.values[k].name = ty.tys[k].name
                      /\ WellTyped(value.values[k].value, ty.tys[k].ty)
          [] OTHER -> TRUE

\* the types before position k of tys are scalars
ScalarsBefore(types, k) ==
    \A j \in 1..(k - 1) : types[j].tag \in {"U32", "Field", "Bool", "Address", "Hash"}

\* the number of words the scalars before position k of tys take
RECURSIVE WordsBefore(_, _)
WordsBefore(types, k) ==
    IF k <= 1 THEN 0
    ELSE WordsBefore(types, k - 1)
            + (IF types[k - 1].tag \in {"Address", "Hash"} THEN WordsPerHash ELSE 1)

\* C24: a successful decode is well-typed: it returns one value per
\* requested type, the k-th value has the k-th type (a FixedArray its
\* declared element type and count, a Tuple the declared names in order, at
\* every depth), and an Array has as many elements as its length word says.
C24_DecodeWellTyped ==
    decoded.status = "ok"
       => /\ Len(decoded.values) = Len(tys)
          /\ \A k \in 1..Len(tys) :
                /\ Value_type_of(decoded.values[k]) = tys[k]
                /\ WellTyped(decoded.values[k], tys[k])
                /\ (tys[k].tag = "Array" /\ ScalarsBefore(tys, k))
                      => Len(decoded.values[k].values) = bs[WordsBefore(tys, k) + 1]

\* C24 witness: <<1, 2, 1, 1>> was decoded as (bool, u32[]): Bool(true) and
\* an Array of the two elements its length word announces
C24_Witness ==
    /\ op = "decode"
    /\ bs = <<1, 2, 1, 1>>
    /\ tys = <<TypeBool, TypeArray(TypeU32)>>
    /\ decoded = ResOk(<<ValueBool(TRUE), ValueArray(<<ValueU32(1), ValueU32(1)>>, TypeU32)>>)

\* C25: decoding Fields or String whose length word announces more words
\* than the stream has left returns the end-of-input error, also when the
\* position after the length word plus the length exceeds usize::MAX.
C25_HugeLengthIsError ==
    (/\ op = "decode"
     /\ tys \in {<<TypeFields>>, <<TypeString>>}
     /\ bs # <<>>
     /\ bs[1] > Len(bs) - 1)
       => /\ decoded.status = "err"
          /\ decoded.msg = "reached end of input while decoding bytes"

\* every Array in value, at any depth, has at most n elements
RECURSIVE ArraysBounded(_, _)
ArraysBounded(value, n) ==
    CASE value.tag = "Array" ->
            /\ Len(value.values) <= n
            /\ \A k \in 1..Len(value.values) : ArraysBounded(value.values[k], n)
      [] value.tag = "FixedArray" ->
            \A k \in 1..Len(value.values) : ArraysBounded(value.values[k], n)
      [] value.tag = "Tuple" ->
            \A k \in 1..Len(value.values) : ArraysBounded(value.values[k].value, n)
      [] OTHER -> TRUE

\* C26: every Array in the result of a successful decode_from_slice has at
\* most as many elements as the stream has words, also when its element type
\* takes no words.
C26_ArraySizeBounded ==
    (op = "decode" /\ decoded.status = "ok")
       => \A k \in 1..Len(decoded.values) : ArraysBounded(decoded.values[k], Len(bs))

\* s is a proper prefix of t, or s itself
IsPrefix(s, t) == Len(s) <= Len(t) /\ SubSeq(t, 1, Len(s)) = s

\* C27: trailing words are ignored: a decode_from_slice that succeeds on ws
\* succeeds with the same values on ws followed by more words; the same
\* holds for Abi::decode_input_from_slice, and for
\* Event::decode_data_from_slice with more data words and more topic slots.
C27_TrailingIgnored ==
    /\ (op = "decode_pair" /\ tys = tys2 /\ IsPrefix(bs, bs2) /\ decoded.status = "ok")
          => decoded2 = decoded
    /\ (op = "decode_input_pair" /\ IsPrefix(input, input2) /\ call.status = "ok")
          => call2 = call
    /\ (op = "decode_data_pair" /\ IsPrefix(topics, topics2) /\ IsPrefix(data, data2)
           /\ log.status = "ok")
          => log2 = log

\* C27 witness: <<1, 2>> and <<1, 2, 1, 0>> were both decoded as u32[] to
\* the one-element array [2]
C27_Witness ==
    /\ op = "decode_pair"
    /\ tys = <<TypeArray(TypeU32)>>
    /\ tys2 = tys
    /\ bs = <<1, 2>>
    /\ bs2 = <<1, 2, 1, 0>>
    /\ decoded = ResOk(<<ValueArray(<<ValueU32(2)>>, TypeU32)>>)
    /\ decoded2 = decoded

\* C27 witness for logs: the log of the test was decoded with one more topic
\* slot and more data words, to the same parameters
C27_LogWitness ==
    /\ op = "decode_data_pair"
    /\ topics = TestTopics
    /\ Len(topics2) > Len(topics)
    /\ Len(data2) > Len(data)
    /\ log.status = "ok"
    /\ log2 = log

\* the positions of the functions of table a whose method_id is w
WithMethodId(a, w) == {k \in 1..Len(a.functions) : Function_method_id(a.functions[k]) = w}

\* the smallest member of a non-empty set of positions
Smallest(positions) == CHOOSE k \in positions : \A j \in positions : k <= j

\* C28: lookups return the first match in declared order: a call input
\* whose selector several functions of the table have is decoded against the
\* one with the smallest index, and encode_input_with_signature frames with
\* the first function whose signature is the given string.
C28_FirstMatch ==
    /\ (op \in {"decode_input", "decode_input_pair"} /\ Len(input) >= 2
           /\ WithMethodId(abi, input[1]) # {})
          => LET k == Smallest(WithMethodId(abi, input[1]))
                 r == Function_decode_input_from_slice(abi.functions[k],
                                                       SubSeq(input, 3, Len(input)))
             IN /\ call.status = r.status
                /\ call.msg = r.msg
                /\ call.params = r.params
                /\ call.status = "ok" => call.index = k /\ call.f = abi.functions[k]
    /\ (op = "encode_input_with_signature" /\ signature \in Signatures(abi)
           /\ framed.status = "ok")
          => framed.words[1] = Function_method_id(FirstWithSignature(abi, signature))

\* C28 witness: the selector of f(u32), declared twice, selected the first
\* declaration and not the second
C28_Witness ==
    /\ op = "decode_input"
    /\ Len(input) >= 2
    /\ Cardinality(WithMethodId(abi, input[1])) = 2
    /\ call.status = "ok"
    /\ call.f = FunF
    /\ call.f # FunFAgain
    /\ Function_method_id(FunFAgain) = input[1]

\* C28 witness for a collision: the selector shared by f39615(u32) and
\* f84403(u32) selected f84403, declared first
C28_CollisionWitness ==
    /\ op = "decode_input"
    /\ Len(input) >= 2
    /\ input[1] = Function_method_id(FunCollideA)
    /\ Function_signature(FunCollideA) # Function_signature(FunCollideB)
    /\ call.status = "ok"
    /\ call.f = FunCollideB
    /\ call.index = 1

\* C29: queue invariant of event decode: once the data stream is decoded,
\* the queue of data values holds one value per input that is not indexed,
\* so "insufficient data values" is never the outcome; when the call
\* succeeds the data queue is empty and the number of topic slots popped is
\* the number of indexed inputs; when the topics run out, none is left.
C29_QueueInvariant ==
    op \in {"decode_data", "decode_data_pair"}
       => /\ LET r == Value_decode_from_slice(data, data_types(event.inputs))
             IN r.status = "ok"
                   => Len(r.values)
                        = Len(event.inputs) - IndexedUpTo(Len(event.inputs))
          /\ log.msg # "insufficient data values"
          /\ log.status = "ok"
                => /\ queues.data_values = <<>>
                   /\ Len(RemainingTopics) - Len(queues.topics_values)
                        = IndexedUpTo(Len(event.inputs))
          /\ log.msg = "insufficient topics entries" => queues.topics_values = <<>>

\* C29 witness: a log of an event with indexed inputs and an input without
\* the indexed key was decoded: both kinds of input were served, the data
\* queue ended empty and two topic slots were popped
C29_Witness ==
    /\ op = "decode_data"
    /\ log.status = "ok"
    /\ \E k \in 1..Len(event.inputs) : event.inputs[k].indexed = OptNone
    /\ IndexedUpTo(Len(event.inputs)) = 2
    /\ Len(RemainingTopics) - Len(queues.topics_values) = 2
    /\ queues.data_values = <<>>
====
